---- MODULE Spec2Model ----
(***************************************************************************)
(* BzPeri: server lifecycle (run-state, health, initialisation state       *)
(* processor, start / trigger-shutdown / wait) and the update queue with   *)
(* its dispatcher.                                                          *)
(*                                                                          *)
(* Three kinds of thread take steps:                                        *)
(*   - the host thread, which calls bzpStart, bzpWait, bzpShutdownAndWait;  *)
(*   - the server (event-loop) thread, runServerThread;                     *)
(*   - a foreign thread, which calls bzpTriggerShutdown and the queue API.  *)
(* A step boundary is placed at every access to state shared between        *)
(* threads (the two atomics, pMainLoop, the thread handle, the queue).      *)
(* Code that runs on the server thread between two such accesses is one     *)
(* step. The nested g_main_context_iteration inside the blocking            *)
(* BluezAdapter::setAdvertising is not unfolded: configureAdapter is one    *)
(* step with its outcomes. BluezAdapter::shutdown, which shutdown() calls   *)
(* between its write of Stopping and g_main_loop_quit, is taken together    *)
(* with g_main_loop_quit.                                                   *)
(*                                                                          *)
(* Spec is the lifecycle with an environment that may fail the server       *)
(* MaxFaults times. SpecQ adds the update queue and the callback of the     *)
(* update timer, which changes nothing but the queue and its own source,    *)
(* to a lifecycle whose environment does not fail. SpecL is the queue API   *)
(* alone, called from several threads, one step per access made under the   *)
(* mutex. SpecA adds to the lifecycle a BlueZ daemon that may leave the bus *)
(* and refuse an advertisement MaxBluezFaults times, and the callbacks of   *)
(* BluezAdapter that react to it. SpecR is Spec with one run and two faults.*)
(* SpecC is the tracking of connected devices by the signal handlers of     *)
(* BluezAdapter. SpecV is the retry paths of BluezAdapter (adapter properties*)
(* and advertising) with initialize and shutdown; SpecVF adds the fairness of*)
(* the GLib main loop, which runs every timer and delivers every reply.     *)
(* SpecS is the lifecycle run twice without faults. SpecG is bzpStart with  *)
(* any arguments and registered configurators, followed by the lifecycle.   *)
(* SpecP is the registry of configurators used by concurrent threads, SpecW *)
(* the wait of bzpStart on the condition variable against                   *)
(* setServerRunState, one step per access to the mutex in each. SpecI is the*)
(* choice of the adapter in BluezAdapter::initialize and SpecD is           *)
(* RetryPolicy::getDelayMs, each started from any of its inputs.            *)
(* SpecF is one run of the lifecycle without faults in which every thread   *)
(* that can take a step takes one. SpecT is SpecG with calls of bzpStart    *)
(* while the server thread of an earlier call exists.                       *)
(***************************************************************************)
EXTENDS Integers, Sequences, FiniteSets, TLC

\* enum BZPServerRunState
EUninitialized == 0
EInitializing == 1
ERunning == 2
EStopping == 3
EStopped == 4

\* enum BZPServerHealth
EOk == 0
EFailedInit == 1
EFailedRun == 2

\* How many times the host calls bzpStart in one process
MaxRuns == 2

\* How many times it does so while the update queue is exercised
MaxQueueRuns == 1

\* How many registrations the bus refuses in one attempt of registerObjects
MaxRefused == 1

\* How many times the environment fails the server in one process: a bus call that
\* fails, a name that is lost, an adapter that is missing or cannot be configured, a
\* registration that is refused, a thread that cannot be spawned
MaxFaults == 1

\* How many entries are pushed to the update queue in one process
MaxPush == 2

\* How many threads of the host call the queue API at the same time
MaxCallers == 2

\* How many times the environment fails the server when retries are followed to
\* their second failure, and how many times the host calls bzpStart then
MaxRetryFaults == 2
MaxRetryRuns == 1

\* How many times the host calls bzpStart while the BlueZ daemon is exercised
MaxAdapterRuns == 1

\* How many times the BlueZ daemon fails in one process: it leaves the bus, or it
\* refuses to register the advertisement
MaxBluezFaults == 2

\* How many device paths BlueZ announces
MaxDevices == 3

\* Substrings of mapDBusErrorName that one error message contains at most
MaxKeywords == 2

\* Calls of setAdvertisingAsync, of setAdapterProperty and of initialize() that are made
MaxAdvertisingCalls == 2
MaxPropertyCalls == 2
MaxInits == 2

\* Calls of bzpStart when the server is started again
MaxRestartRuns == 2

\* Pieces of a service name, configurators registered, and calls of bzpStart with
\* arguments of every kind
MaxNamePieces == 2
MaxNullPointers == 1
MaxConfigurators == 1
MaxConfigRuns == 2
\* The calls of bzpStart when the host also calls it while a server exists
MaxStartCalls == 2

\* Under concurrent callers: the largest configurator id, the configurators the
\* registry holds at most, the calls of each registering thread and of the applier
MaxConfiguratorId == 2
MaxRegistered == 3
MaxRegistrarCalls == 2
MaxApplyCalls == 1

\* The wake-ups without notification of the thread waiting in bzpStartWithBondable
MaxSpuriousWakeups == 1

\* The adapters a discovery returns at most
MaxAdapters == 3

\* The largest attempt number passed to getDelayMs
MaxAttempt == 4

\* The value of observed before stateChangedCV.wait_for has returned
NotWaited == -1

\* The initialisation milestones, in the order of the state processor's checks
AllMilestones == <<"bus", "name", "objmgr", "iface", "adapter", "tree", "app">>

\* The GATT tree of TheServer: node 1 is the root object /com/bzperi, 2 the service
\* "text", 3 its characteristic "string", 4 the descriptor "description" of that
\* characteristic; node 5 is the unpublished "/" object that carries
\* org.freedesktop.DBus.ObjectManager.
Objects == <<1, 5>>
Children(n) == IF n = 1 THEN <<2>> ELSE IF n = 2 THEN <<3>> ELSE IF n = 3 THEN <<4>> ELSE <<>>
HasInterface(n) == n \in {2, 3, 4, 5}
Nodes == {1, 2, 3, 4, 5}

VARIABLES
    serverRunState,     \* std::atomic<BZPServerRunState>
    serverHealth,       \* std::atomic<BZPServerHealth>
    serverThread,       \* "none" | "running" | "finished" (finished: joinable, body done)
    srvPc,              \* position of the server thread
    procRet,            \* where initializationStateProcessor returns to
    pMainLoop,          \* TRUE when non-null
    loopQuit,           \* g_main_loop_quit was called on the current loop
    updateTimer,        \* the 10 ms update-processor source is attached
    st,                 \* the statics of Init.cpp
    exported,           \* interfaces currently exported on the bus connection
    milestones,         \* milestones completed since the last bzpStart, in order
    hostPc, hostRet, observed, startResult, waitResult,
    startsLeft,         \* calls of bzpStart the host may still make
    fgnPc,
    faults,             \* failures the environment may still cause
    updateQueue,        \* std::deque<QueueEntry>, front first; each entry carries an id
    nextId,             \* number of entries pushed so far
    dispatched,         \* what the dispatcher took from the queue, in order
    updateQueueMutex,   \* std::mutex: 0 when free, else the thread that holds it
    apiCall,            \* per calling thread: the queue function it is in, and where
    atomicQueue,        \* the deque as the calls would leave it if each ran alone
    adapter,            \* the BluezAdapter singleton and its BluezAdvertisement
    recoveryTimer,      \* the timeout source onNameOwnerChanged has attached, if any
    bluez,              \* the BlueZ daemon: on the bus or not, and what is registered there
    bluezFaults,        \* failures of the BlueZ daemon the environment may still cause
    events,             \* what has happened since the last bzpStart
    callbacks,          \* the calls of connectionCallback made by the last signal handled
    adv,                \* the advertisement of the adapter, its calls in flight and its retry
    prop,               \* the retries of property writes
    config,             \* the arguments of the last call of bzpStart
    registry,           \* gConfigurators: the registered configurators, in order
    applied,            \* the configurators called so far, in order
    cfgMutex,           \* configuratorMutex: "free", or the thread that holds it
    applier,            \* the thread inside applyRegisteredServiceConfigurators
    registrar,          \* the threads inside registerServiceConfigurator or clear
    stateChangedMutex,  \* "free", or "waiter" while the waiting thread holds it
    waiter,             \* the thread inside the wait_for of bzpStartWithBondable; missed: it
                        \* blocked on a run-state that satisfied its predicate, all notified
    writer,             \* the thread inside setServerRunState
    selection,          \* BluezAdapter::initialize: the adapters found, the preference, the choice
    delayCall           \* a call of RetryPolicy::getDelayMs: policy, attempt, jitter, result

lockVars == <<updateQueueMutex, apiCall, atomicQueue>>
queueVars == <<updateQueue, nextId, dispatched, lockVars>>
adapterVars == <<adapter, recoveryTimer, bluez, bluezFaults>>
srvVars == <<srvPc, procRet, pMainLoop, loopQuit, updateTimer>>
hostVars == <<hostPc, hostRet, observed, startResult, waitResult, startsLeft>>
coreVars == <<serverRunState, serverHealth, serverThread, srvVars, st, exported, milestones,
              hostVars, fgnPc, faults, queueVars, adapterVars, events>>
retryVars == <<adv, prop>>
regVars == <<cfgMutex, applier, registrar>>
cfgVars == <<config, registry, applied, regVars>>
waitVars == <<stateChangedMutex, waiter, writer>>
argVars == <<selection, delayCall>>
extVars == <<callbacks, retryVars, cfgVars, waitVars, argVars>>
vars == <<coreVars, extVars>>

StInit ==
    [ pBusConnection |-> FALSE,
      ownedNameId |-> 0,
      nameRequest |-> "none",
      periodicTimeoutId |-> 0,
      periodicSource |-> FALSE,
      registeredObjectIds |-> {},
      pBluezObjectManager |-> FALSE,
      bOwnedNameAcquired |-> FALSE,
      bAdapterConfigured |-> FALSE,
      bApplicationRegistered |-> FALSE,
      bluezGattManagerInterfaceName |-> FALSE,
      retryTimeStart |-> 0,
      failed |-> {},
      pending |-> {} ]

\* The threads of the host that call the queue API
Callers == 1..MaxCallers

\* The object paths of the devices BlueZ may announce
DevicePaths == 1..MaxDevices

\* A thread that is in none of the queue functions
NoCall ==
    [ op |-> "none", pc |-> "idle",
      entry |-> [id |-> 0, path |-> <<>>, iface |-> <<>>],
      elementLen |-> 0, keep |-> 0,
      ret |-> 0, id |-> 0, element |-> <<>>,
      atomicRet |-> 0, atomicId |-> 0, atomicElement |-> <<>> ]

\* The BluezAdapter singleton before initialize(): no advertisement object, no
\* RegisterAdvertisement call in flight, no retry scheduled, an empty map
\* connectedDevices (a path is "absent" from it, or its entry says "connected" or
\* "disconnected"), no connection counted, no connectionCallback set
AdapterInit ==
    [ initialized |-> FALSE,
      advertisement |-> "none",
      registerCall |-> "none",
      activeRetries |-> 0,
      activeAdvertisingRetry |-> "none",
      connectedDevices |-> [p \in DevicePaths |-> "absent"],
      activeConnections |-> 0,
      connectionCallback |-> FALSE ]

\* The BlueZ daemon owns org.bluez, has nothing of this server registered and knows
\* no device
BluezInit ==
    [ present |-> TRUE, application |-> FALSE, advertisement |-> FALSE,
      devices |-> [p \in DevicePaths |-> "none"] ]

\* The adapter's advertising before any call: no BluezAdvertisement object, no call in
\* flight, no retry
AdvInit ==
    [ advertisement |-> FALSE,      \* the BluezAdvertisement object exists
      registered |-> FALSE,         \* its registered_
      firstCalls |-> 0,             \* RegisterAdvertisement of setAdvertisingAsync in flight
      retryCalls |-> 0,             \* RegisterAdvertisement of the retry timer in flight
      unregisterCalls |-> 0,        \* UnregisterAdvertisement in flight
      activeAdvertisingRetry |-> 0, \* 0 when null, else its currentAttempt
      timers |-> 0,                 \* attached onAdvertisingRetryTimeout sources
      timerOfState |-> FALSE,       \* the state's timeoutId names an attached source
      reattempts |-> 0,             \* calls the retry timer has sent since the last
                                    \* scheduleAdvertisingRetry
      call |-> "none",              \* the API call the last step was: "enable", "disable"
      busCall |-> "none",           \* the bus call the last step sent
      reported |-> "none",          \* the result the last step passed to the callback
      error |-> "None",             \* the class of the failure the last step handled
      scheduled |-> FALSE,          \* the last step attached a retry timer for it
      disabled |-> FALSE,           \* the last setAdvertisingAsync that went past the
                                    \* test of initialized was a call with false
      callsLeft |-> MaxAdvertisingCalls,
      initsLeft |-> MaxInits ]

\* The property path before any call: activeRetries holds the currentAttempt of each
\* RetryState
PropInit ==
    [ activeRetries |-> <<>>, error |-> "None", scheduled |-> FALSE,
      callsLeft |-> MaxPropertyCalls ]

\* No call yet
NoConfig ==
    [ serviceNameNull |-> TRUE, serviceName |-> <<>>, nulls |-> {},
      maxAsyncInitTimeoutMS |-> 99 ]

\* BluezAdapter before initialize has selected an adapter
NoSelection ==
    [ pc |-> "none", availableAdapters |-> <<>>, preferredAdapter |-> <<>>,
      adapterPath |-> <<>>, error |-> "None" ]

\* No call of RetryPolicy::getDelayMs yet
NoDelayCall ==
    [ pc |-> "none", baseDelayMs |-> 0, maxDelayMs |-> 0, multiplier |-> <<1, 1>>,
      attempt |-> 0, jitter |-> 0, result |-> 0 ]

\* The state after the static initialisers, but for the arguments of the calls that a
\* specification may draw at its start
Started ==
    /\ serverRunState = EUninitialized
    /\ serverHealth = EOk
    /\ serverThread = "none"
    /\ srvPc = "none"
    /\ procRet = "mkloop"
    /\ pMainLoop = FALSE
    /\ loopQuit = FALSE
    /\ updateTimer = FALSE
    /\ st = StInit
    /\ exported = {}
    /\ milestones = <<>>
    /\ hostPc = "idle"
    /\ hostRet = "check"
    /\ observed = NotWaited
    /\ startResult = -1
    /\ waitResult = -1
    /\ fgnPc = "idle"
    /\ updateQueue = <<>>
    /\ nextId = 0
    /\ dispatched = <<>>
    /\ updateQueueMutex = 0
    /\ apiCall = [t \in Callers |-> NoCall]
    /\ atomicQueue = <<>>
    /\ adapter = AdapterInit
    /\ recoveryTimer = "none"
    /\ bluez = BluezInit
    /\ events = {}
    /\ callbacks = <<>>
    /\ adv = AdvInit
    /\ prop = PropInit
    /\ config = NoConfig
    /\ registry = <<>>
    /\ applied = <<>>
    /\ cfgMutex = "free"
    /\ applier = [pc |-> "idle", callsLeft |-> MaxApplyCalls, atLock |-> <<>>,
                  snapshot |-> <<>>, next |-> 1]
    /\ registrar = [t \in {"r1", "r2"} |-> [pc |-> "idle", callsLeft |-> MaxRegistrarCalls]]
    /\ stateChangedMutex = "free"
    /\ waiter = [pc |-> "start", initCompleted |-> FALSE, timedOut |-> FALSE,
                 missed |-> FALSE, spuriousLeft |-> MaxSpuriousWakeups]
    /\ writer = [pc |-> "idle"]

Start == Started /\ selection = NoSelection /\ delayCall = NoDelayCall

Init == Start /\ startsLeft = MaxRuns /\ faults = MaxFaults /\ bluezFaults = 0

\* The environment fails only while it has failures left
MayFail(ok) == ok \/ faults > 0
Spend(ok) == IF ok THEN faults ELSE faults - 1

\* The BlueZ daemon refuses only while it has failures left; a daemon that is not on
\* the bus grants nothing
BluezMayFail(ok) == IF ok THEN bluez.present ELSE ~bluez.present \/ bluezFaults > 0
BluezSpend(ok) == IF ok \/ ~bluez.present THEN bluezFaults ELSE bluezFaults - 1

\* A milestone is logged the first time it completes in the current run
Completed(ms, m) == IF \E i \in 1..Len(ms) : ms[i] = m THEN ms ELSE Append(ms, m)

(***************************************************************************)
(* shutdown(), Init.cpp                                                     *)
(***************************************************************************)

\* The guard of shutdown(): a server that is already stopping ignores the call
ShutdownIgnored(state) == state > ERunning

\* g_main_loop_quit is called only on a main loop that exists
QuitAfterShutdown(loop, quit) == IF loop THEN TRUE ELSE quit

\* BluezAdapter::shutdown: nothing when the adapter is not initialized; otherwise the
\* subscriptions and the connection are released, the property retries and the
\* advertising retry are cancelled, connectedDevices is cleared and activeConnections
\* is set to 0 without a callback. The advertisement object is left as it is (the
\* only call of unregisterAdvertisementAsync is in setAdvertisingAsync(false), which
\* no caller uses), and the timeout source of onNameOwnerChanged, whose id was never
\* kept, stays attached.
BluezAdapterShutdown(a) ==
    IF ~a.initialized THEN a
    ELSE [a EXCEPT !.initialized = FALSE, !.activeRetries = 0,
                   !.activeAdvertisingRetry = "none",
                   !.connectedDevices = [p \in DevicePaths |-> "absent"],
                   !.activeConnections = 0]

\* A shutdown() that does nothing
NoShutdown == UNCHANGED <<serverRunState, loopQuit, adapter>>

\* shutdown() called on the server thread itself (from a callback or from the state
\* processor). The server thread is the only writer of Initializing, Running and
\* Stopped while it exists, so its own check-then-set cannot be overtaken by a write
\* that it would undo; the call is one step.
SrvShutdown ==
    IF ShutdownIgnored(serverRunState)
    THEN UNCHANGED <<serverRunState, loopQuit, adapter>>
    ELSE /\ serverRunState' = EStopping
         /\ adapter' = BluezAdapterShutdown(adapter)
         /\ loopQuit' = QuitAfterShutdown(pMainLoop, loopQuit)

(***************************************************************************)
(* registerObjects / registerNodeHierarchy                                  *)
(***************************************************************************)

RECURSIVE registerNodeHierarchy(_, _, _), registerChildren(_, _, _, _)

\* r = [ids, exp, failed]: registeredObjectIds, the interfaces exported on the bus, and
\* whether setRetryFailure was called. F is the set of nodes whose registration the bus
\* refuses in this attempt; an interface that is still exported is refused as well.
registerNodeHierarchy(n, r, F) ==
    IF HasInterface(n) /\ (n \in F \/ n \in r.exp)
    THEN [ids |-> {}, exp |-> r.exp, failed |-> TRUE]
    ELSE LET r1 == IF HasInterface(n)
                   THEN [r EXCEPT !.ids = @ \cup {n}, !.exp = @ \cup {n}]
                   ELSE r
         IN  registerChildren(Children(n), 1, r1, F)

registerChildren(cs, i, r, F) ==
    IF i > Len(cs) THEN r
    ELSE registerChildren(cs, i + 1, registerNodeHierarchy(cs[i], r, F), F)

RECURSIVE registerObjectsFrom(_, _, _)
registerObjectsFrom(i, r, F) ==
    IF i > Len(Objects) THEN r
    ELSE registerObjectsFrom(i + 1, registerNodeHierarchy(Objects[i], r, F), F)

(***************************************************************************)
(* initializationStateProcessor                                             *)
(***************************************************************************)

\* The chain of checks of the state processor: the first milestone that is missing
NextMilestone(s) ==
    IF ~s.pBusConnection THEN "bus"
    ELSE IF ~s.bOwnedNameAcquired THEN "name"
    ELSE IF ~s.pBluezObjectManager THEN "objmgr"
    ELSE IF ~s.bluezGattManagerInterfaceName THEN "iface"
    ELSE IF ~s.bAdapterConfigured THEN "adapter"
    ELSE IF s.registeredObjectIds = {} THEN "tree"
    ELSE IF ~s.bApplicationRegistered THEN "app"
    ELSE "done"

\* End of life, or waiting for a retry: the processor returns at once
ProcessorHolds(state, s) == state > ERunning \/ s.retryTimeStart # 0

ProcAt(m) ==
    /\ srvPc = "proc"
    /\ ~ProcessorHolds(serverRunState, st)
    /\ NextMilestone(st) = m

ProcReturn ==
    /\ srvPc = "proc"
    /\ ProcessorHolds(serverRunState, st)
    /\ srvPc' = procRet
    /\ UNCHANGED <<serverRunState, serverHealth, serverThread, procRet, pMainLoop, loopQuit,
                   updateTimer, st, exported, milestones, hostVars, fgnPc, faults,
                   queueVars, adapterVars, events, extVars>>

\* doBusAcquire: g_bus_get is issued, its callback comes later
ProcBus ==
    /\ ProcAt("bus")
    /\ st' = [st EXCEPT !.pending = @ \cup {"bus"}]
    /\ srvPc' = procRet
    /\ UNCHANGED <<serverRunState, serverHealth, serverThread, procRet, pMainLoop, loopQuit,
                   updateTimer, exported, milestones, hostVars, fgnPc, faults,
                   queueVars, adapterVars, events, extVars>>

\* doOwnedNameAcquire: g_bus_own_name_on_connection
ProcName ==
    /\ ProcAt("name")
    /\ st' = [st EXCEPT !.bOwnedNameAcquired = FALSE, !.ownedNameId = 1,
                        !.nameRequest = "pending"]
    /\ srvPc' = procRet
    /\ UNCHANGED <<serverRunState, serverHealth, serverThread, procRet, pMainLoop, loopQuit,
                   updateTimer, exported, milestones, hostVars, fgnPc, faults,
                   queueVars, adapterVars, events, extVars>>

\* getBluezObjectManager
ProcObjMgr ==
    /\ ProcAt("objmgr")
    /\ st' = [st EXCEPT !.pending = @ \cup {"objmgr"}]
    /\ srvPc' = procRet
    /\ UNCHANGED <<serverRunState, serverHealth, serverThread, procRet, pMainLoop, loopQuit,
                   updateTimer, exported, milestones, hostVars, fgnPc, faults,
                   queueVars, adapterVars, events, extVars>>

\* findAdapterInterface: synchronous; on success it calls the processor again
ProcFindAdapter ==
    /\ ProcAt("iface")
    /\ \E found \in BOOLEAN :
          /\ MayFail(found)
          /\ faults' = Spend(found)
          /\ IF found
             THEN /\ st' = [st EXCEPT !.bluezGattManagerInterfaceName = TRUE]
                  /\ milestones' = Completed(milestones, "iface")
                  /\ srvPc' = "proc"
             ELSE /\ st' = [st EXCEPT !.retryTimeStart = 1, !.failed = @ \cup {"iface"}]
                  /\ milestones' = milestones
                  /\ srvPc' = procRet
    /\ UNCHANGED <<serverRunState, serverHealth, serverThread, procRet, pMainLoop, loopQuit,
                   updateTimer, exported, hostVars, fgnPc,
                   queueVars, adapterVars, events, extVars>>

\* BluezAdapter::initialize: at once when the adapter is initialized already, else it
\* needs the daemon on the bus
CanInitialize(a, b) == a.initialized \/ b.present

\* BluezAdapter::setAdvertising(true) as configureAdapter sees it return: the
\* advertisement object exists; it is registered, or the call failed and a retry of
\* it is scheduled
setAdvertising(a, registered) ==
    [a EXCEPT !.advertisement = IF registered THEN "registered" ELSE "created",
              !.activeAdvertisingRetry = IF registered THEN "none" ELSE "scheduled"]

\* configureAdapter: BluezAdapter::initialize may fail (setRetry); setAdvertising
\* registers the advertisement or leaves a retry behind, which is only logged;
\* setPowered may fail, which schedules a retry of the property and calls setRetry;
\* otherwise the adapter is configured and the processor is called again
ProcConfigure ==
    /\ ProcAt("adapter")
    /\ \E outcome \in {"initFailed", "powerFailed", "configured"}, registered \in BOOLEAN :
          /\ IF CanInitialize(adapter, bluez)
             THEN MayFail(outcome = "configured") /\ faults' = Spend(outcome = "configured")
             ELSE outcome = "initFailed" /\ faults' = faults
          /\ IF outcome = "initFailed"
             THEN /\ registered
                  /\ UNCHANGED <<adapter, bluez, bluezFaults>>
             ELSE /\ BluezMayFail(registered)
                  /\ bluezFaults' = BluezSpend(registered)
                  /\ bluez' = [bluez EXCEPT !.advertisement = registered \/ @]
                  /\ adapter' = [setAdvertising([adapter EXCEPT !.initialized = TRUE],
                                                registered)
                                    EXCEPT !.activeRetries =
                                               IF outcome = "powerFailed" THEN 1 ELSE @]
          /\ IF outcome = "configured"
             THEN /\ st' = [st EXCEPT !.bAdapterConfigured = TRUE]
                  /\ milestones' = Completed(milestones, "adapter")
                  /\ srvPc' = "proc"
             ELSE /\ st' = [st EXCEPT !.retryTimeStart = 1, !.failed = @ \cup {"adapter"}]
                  /\ milestones' = milestones
                  /\ srvPc' = procRet
    /\ UNCHANGED <<serverRunState, serverHealth, serverThread, procRet, pMainLoop, loopQuit,
                   updateTimer, exported, hostVars, fgnPc, queueVars, recoveryTimer, events,
                   extVars>>

\* The bus refuses at most MaxRefused registrations of one attempt
RefusedSets == {F \in SUBSET {n \in Nodes : HasInterface(n)} : Cardinality(F) <= MaxRefused}

\* registerObjects: every object of TheServer is registered; it ends by calling the
\* processor again, whether a registration failed or not
ProcRegisterObjects ==
    /\ ProcAt("tree")
    /\ \E F \in RefusedSets :
          /\ MayFail(F = {})
          /\ faults' = Spend(F = {})
          /\ LET r == registerObjectsFrom(1, [ids |-> st.registeredObjectIds,
                                              exp |-> exported, failed |-> FALSE], F)
             IN  /\ st' = [st EXCEPT !.registeredObjectIds = r.ids,
                                     !.retryTimeStart = IF r.failed THEN 1 ELSE @,
                                     !.failed = IF r.failed THEN @ \cup {"tree"} ELSE @]
                 /\ exported' = r.exp
                 /\ milestones' = IF r.failed THEN milestones
                                  ELSE Completed(milestones, "tree")
    /\ srvPc' = "proc"
    /\ UNCHANGED <<serverRunState, serverHealth, serverThread, procRet, pMainLoop, loopQuit,
                   updateTimer, hostVars, fgnPc,
                   queueVars, adapterVars, events, extVars>>

\* doRegisterApplication: RegisterApplication is issued, its callback comes later
ProcRegisterApplication ==
    /\ ProcAt("app")
    /\ st' = [st EXCEPT !.pending = @ \cup {"app"}]
    /\ srvPc' = procRet
    /\ UNCHANGED <<serverRunState, serverHealth, serverThread, procRet, pMainLoop, loopQuit,
                   updateTimer, exported, milestones, hostVars, fgnPc, faults,
                   queueVars, adapterVars, events, extVars>>

\* Every check passed: the processor goes on to read the health
ProcInitialized ==
    /\ ProcAt("done")
    /\ srvPc' = "procHealth"
    /\ UNCHANGED <<serverRunState, serverHealth, serverThread, procRet, pMainLoop, loopQuit,
                   updateTimer, st, exported, milestones, hostVars, fgnPc, faults,
                   queueVars, adapterVars, events, extVars>>

\* if (bzpGetServerHealth() != EOk) { shutdown(); return; }
ProcHealth ==
    /\ srvPc = "procHealth"
    /\ IF serverHealth # EOk
       THEN /\ SrvShutdown
            /\ srvPc' = procRet
       ELSE /\ srvPc' = "procSetRunning"
            /\ UNCHANGED <<serverRunState, loopQuit, adapter>>
    /\ UNCHANGED <<serverHealth, serverThread, procRet, pMainLoop, updateTimer, st,
                   exported, milestones, hostVars, fgnPc, faults,
                   queueVars, recoveryTimer, bluez, bluezFaults, events, extVars>>

\* setServerRunState(ERunning)
ProcSetRunning ==
    /\ srvPc = "procSetRunning"
    /\ serverRunState' = ERunning
    /\ srvPc' = procRet
    /\ UNCHANGED <<serverHealth, serverThread, procRet, pMainLoop, loopQuit, updateTimer,
                   st, exported, milestones, hostVars, fgnPc, faults,
                   queueVars, adapterVars, events, extVars>>

(***************************************************************************)
(* runServerThread and the callbacks the main loop dispatches               *)
(***************************************************************************)

\* setServerRunState(EInitializing), then the first call of the state processor
SrvBegin ==
    /\ srvPc = "begin"
    /\ serverRunState' = EInitializing
    /\ srvPc' = "proc"
    /\ procRet' = "mkloop"
    /\ UNCHANGED <<serverHealth, serverThread, pMainLoop, loopQuit, updateTimer, st,
                   exported, milestones, hostVars, fgnPc, faults,
                   queueVars, adapterVars, events, extVars>>

\* pMainLoop = g_main_loop_new(...); the update-processor timer is attached
SrvCreateLoop ==
    /\ srvPc = "mkloop"
    /\ pMainLoop' = TRUE
    /\ loopQuit' = FALSE
    /\ updateTimer' = TRUE
    /\ srvPc' = "run"
    /\ UNCHANGED <<serverRunState, serverHealth, serverThread, procRet, st, exported,
                   milestones, hostVars, fgnPc, faults,
                   queueVars, adapterVars, events, extVars>>

\* g_main_loop_run marks the loop as running when it is entered: a quit that was
\* requested before that is forgotten
SrvRunLoop ==
    /\ srvPc = "run"
    /\ loopQuit' = FALSE
    /\ srvPc' = "loop"
    /\ UNCHANGED <<serverRunState, serverHealth, serverThread, procRet, pMainLoop,
                   updateTimer, st, exported, milestones, hostVars, fgnPc, faults,
                   queueVars, adapterVars, events, extVars>>

\* Callback of g_bus_get
OnBusAcquired ==
    /\ srvPc = "loop"
    /\ "bus" \in st.pending
    /\ \E connected \in BOOLEAN :
          /\ MayFail(connected)
          /\ faults' = Spend(connected)
          /\ IF connected
             THEN /\ st' = [st EXCEPT !.pending = @ \ {"bus"}, !.pBusConnection = TRUE]
                  /\ milestones' = Completed(milestones, "bus")
                  /\ events' = events
                  /\ UNCHANGED <<serverRunState, serverHealth, loopQuit, adapter>>
             ELSE /\ st' = [st EXCEPT !.pending = @ \ {"bus"}, !.pBusConnection = FALSE]
                  /\ milestones' = milestones
                  /\ serverHealth' = EFailedInit
                  /\ events' = events \cup {"busFailed"}
                  /\ SrvShutdown
    /\ srvPc' = "proc"
    /\ procRet' = "loop"
    /\ UNCHANGED <<serverThread, pMainLoop, updateTimer, exported, hostVars, fgnPc,
                   queueVars, recoveryTimer, bluez, bluezFaults, extVars>>

\* name_acquired_handler of g_bus_own_name_on_connection: the periodic timer is added
\* (g_timeout_add_seconds returns an id greater than 0, so the branch for a failed
\* timer is never taken). A request that lost the name stays queued and may acquire
\* it later.
OnNameAcquired ==
    /\ srvPc = "loop"
    /\ st.nameRequest \in {"pending", "lost"}
    /\ st' = [st EXCEPT !.nameRequest = "owned", !.periodicTimeoutId = 1,
                        !.periodicSource = TRUE, !.bOwnedNameAcquired = TRUE]
    /\ milestones' = Completed(milestones, "name")
    /\ srvPc' = "proc"
    /\ procRet' = "loop"
    /\ UNCHANGED <<serverRunState, serverHealth, serverThread, pMainLoop, loopQuit,
                   updateTimer, exported, hostVars, fgnPc, faults,
                   queueVars, adapterVars, events, extVars>>

\* name_lost_handler: fatal without a periodic timer, a retry with one
OnNameLost ==
    /\ srvPc = "loop"
    /\ st.nameRequest \in {"pending", "owned"}
    /\ MayFail(FALSE)
    /\ faults' = Spend(FALSE)
    /\ IF st.periodicTimeoutId = 0
       THEN /\ st' = [st EXCEPT !.nameRequest = "lost", !.bOwnedNameAcquired = FALSE]
            /\ serverHealth' = EFailedInit
            /\ events' = events \cup {"nameFailed"}
            /\ SrvShutdown
            /\ srvPc' = "proc"
            /\ procRet' = "loop"
       ELSE /\ st' = [st EXCEPT !.nameRequest = "lost", !.bOwnedNameAcquired = FALSE,
                                !.retryTimeStart = 1, !.failed = @ \cup {"name"}]
            /\ events' = events \cup {IF st.nameRequest = "pending" THEN "nameRetryFailed"
                                       ELSE "nameLost"}
            /\ UNCHANGED <<serverRunState, serverHealth, loopQuit, srvPc, procRet, adapter>>
    /\ UNCHANGED <<serverThread, pMainLoop, updateTimer, exported, milestones, hostVars,
                   fgnPc,
                   queueVars, recoveryTimer, bluez, bluezFaults, extVars>>

\* Callback of g_dbus_object_manager_client_new
OnObjectManager ==
    /\ srvPc = "loop"
    /\ "objmgr" \in st.pending
    /\ \E created \in BOOLEAN :
          /\ MayFail(created)
          /\ faults' = Spend(created)
          /\ IF created
             THEN /\ st' = [st EXCEPT !.pending = @ \ {"objmgr"}, !.pBluezObjectManager = TRUE]
                  /\ milestones' = Completed(milestones, "objmgr")
                  /\ srvPc' = "proc"
                  /\ procRet' = "loop"
             ELSE /\ st' = [st EXCEPT !.pending = @ \ {"objmgr"},
                                      !.pBluezObjectManager = FALSE, !.retryTimeStart = 1,
                                      !.failed = @ \cup {"objmgr"}]
                  /\ UNCHANGED <<milestones, srvPc, procRet>>
    /\ UNCHANGED <<serverRunState, serverHealth, serverThread, pMainLoop, loopQuit,
                   updateTimer, exported, hostVars, fgnPc,
                   queueVars, adapterVars, events, extVars>>

\* Callback of RegisterApplication
OnApplicationRegistered ==
    /\ srvPc = "loop"
    /\ "app" \in st.pending
    /\ \E registered \in BOOLEAN :
          /\ registered => bluez.present
          /\ MayFail(registered \/ ~bluez.present)
          /\ faults' = Spend(registered \/ ~bluez.present)
          /\ IF registered
             THEN /\ st' = [st EXCEPT !.pending = @ \ {"app"}, !.bApplicationRegistered = TRUE]
                  /\ milestones' = Completed(milestones, "app")
                  /\ bluez' = [bluez EXCEPT !.application = TRUE]
             ELSE /\ st' = [st EXCEPT !.pending = @ \ {"app"}, !.retryTimeStart = 1,
                                      !.failed = @ \cup {"app"}]
                  /\ milestones' = milestones
                  /\ bluez' = bluez
    /\ srvPc' = "proc"
    /\ procRet' = "loop"
    /\ UNCHANGED <<serverRunState, serverHealth, serverThread, pMainLoop, loopQuit,
                   updateTimer, exported, hostVars, fgnPc, queueVars, adapter,
                   recoveryTimer, bluezFaults, events, extVars>>

\* onPeriodicTimer, at a tick at which kRetryDelaySeconds have passed since
\* retryTimeStart (an earlier tick changes nothing); when shutting down the timer
\* removes itself
OnPeriodicTimer ==
    /\ srvPc = "loop"
    /\ st.periodicSource
    /\ IF serverRunState > ERunning
       THEN /\ st' = [st EXCEPT !.periodicSource = FALSE]
            /\ UNCHANGED <<srvPc, procRet>>
       ELSE /\ st.retryTimeStart # 0
            /\ st' = [st EXCEPT !.retryTimeStart = 0, !.failed = {}]
            /\ srvPc' = "proc"
            /\ procRet' = "loop"
    /\ UNCHANGED <<serverRunState, serverHealth, serverThread, pMainLoop, loopQuit,
                   updateTimer, exported, milestones, hostVars, fgnPc, faults,
                   queueVars, adapterVars, events, extVars>>

\* g_main_loop_run returns once a quit was requested
SrvLoopExit ==
    /\ srvPc = "loop"
    /\ loopQuit
    /\ srvPc' = "stopped"
    /\ UNCHANGED <<serverRunState, serverHealth, serverThread, procRet, pMainLoop, loopQuit,
                   updateTimer, st, exported, milestones, hostVars, fgnPc, faults,
                   queueVars, adapterVars, events, extVars>>

\* setServerRunState(EStopped)
SrvSetStopped ==
    /\ srvPc = "stopped"
    /\ serverRunState' = EStopped
    /\ srvPc' = "uninit"
    /\ UNCHANGED <<serverHealth, serverThread, procRet, pMainLoop, loopQuit, updateTimer,
                   st, exported, milestones, hostVars, fgnPc, faults,
                   queueVars, adapterVars, events, extVars>>

\* What uninit() resets of the statics. bOwnedNameAcquired, bAdapterConfigured,
\* bApplicationRegistered, bluezGattManagerInterfaceName, ownedNameId and
\* retryTimeStart are not touched; calls that are still in flight stay in flight.
Uninit(s) ==
    [s EXCEPT !.pBluezObjectManager = FALSE,
              !.registeredObjectIds = {},
              !.periodicTimeoutId = 0,
              !.periodicSource = FALSE,
              !.nameRequest = IF s.ownedNameId > 0 THEN "none" ELSE @,
              !.pBusConnection = FALSE]

\* uninit(), then the thread function returns. The registered ids are unregistered
\* and the connection is released, which ends every export on it.
SrvUninit ==
    /\ srvPc = "uninit"
    /\ st' = Uninit(st)
    /\ exported' = {}
    /\ pMainLoop' = FALSE
    /\ serverThread' = "finished"
    /\ srvPc' = "none"
    /\ UNCHANGED <<serverRunState, serverHealth, procRet, loopQuit, updateTimer, milestones,
                   hostVars, fgnPc, faults,
                   queueVars, adapterVars, events, extVars>>

(***************************************************************************)
(* The host thread: bzpStartWithBondable, bzpWait, bzpShutdownAndWait       *)
(***************************************************************************)

\* A start that would set the health back to Ok
HealthReset(h) == EOk

\* What bzpStartWithBondable does to the health when it begins: nothing
HealthAtStart(h) == h

\* bzpStartWithBondable with a valid configuration, up to the allocation of TheServer
\* and the application of the configurators. The host starts a server only when no
\* server thread is left to join.
HostStart ==
    /\ hostPc = "idle"
    /\ serverThread = "none"
    /\ startsLeft > 0
    /\ startsLeft' = startsLeft - 1
    /\ serverHealth' = HealthAtStart(serverHealth)
    /\ milestones' = <<>>
    /\ startResult' = -1
    /\ waitResult' = -1
    /\ observed' = NotWaited
    /\ events' = IF startResult = 1 THEN {"restart"} ELSE {}
    /\ hostPc' = "spawn"
    /\ UNCHANGED <<serverRunState, serverThread, srvVars, st, exported, hostRet, fgnPc,
                   faults,
                   queueVars, adapterVars, extVars>>

\* serverThread = std::thread(runServerThread); a system_error sets Stopped and fails
HostSpawn ==
    /\ hostPc = "spawn"
    /\ \E spawned \in BOOLEAN :
          /\ MayFail(spawned)
          /\ faults' = Spend(spawned)
          /\ IF spawned
             THEN /\ serverThread' = "running"
                  /\ srvPc' = "begin"
                  /\ hostPc' = "wait"
                  /\ UNCHANGED <<serverRunState, startResult>>
             ELSE /\ serverRunState' = EStopped
                  /\ startResult' = 0
                  /\ hostPc' = "idle"
                  /\ UNCHANGED <<serverThread, srvPc>>
    /\ UNCHANGED <<serverHealth, procRet, pMainLoop, loopQuit, updateTimer, st, exported,
                   milestones, hostRet, observed, waitResult, startsLeft, fgnPc,
                   queueVars, adapterVars, events, extVars>>

\* The predicate of stateChangedCV.wait_for
InitWaitOver(state) == state > EInitializing

\* wait_for returns: with the predicate true, or at the timeout with the predicate false
HostWait ==
    /\ hostPc = "wait"
    /\ observed' = serverRunState
    /\ hostPc' = IF InitWaitOver(serverRunState) THEN "check" ELSE "timedOut"
    /\ UNCHANGED <<serverRunState, serverHealth, serverThread, srvVars, st, exported,
                   milestones, hostRet, startResult, waitResult, startsLeft, fgnPc, faults,
                   queueVars, adapterVars, events, extVars>>

\* if (!initCompleted) { setServerHealth(EFailedInit); shutdown(); }
HostTimedOut ==
    /\ hostPc = "timedOut"
    /\ serverHealth' = EFailedInit
    /\ hostPc' = "sdCheck"
    /\ hostRet' = "check"
    /\ UNCHANGED <<serverRunState, serverThread, srvVars, st, exported, milestones,
                   observed, startResult, waitResult, startsLeft, fgnPc, faults,
                   queueVars, adapterVars, events, extVars>>

\* shutdown() on the host thread, one step per shared access
HostShutdownCheck ==
    /\ hostPc = "sdCheck"
    /\ hostPc' = IF ShutdownIgnored(serverRunState) THEN hostRet ELSE "sdSet"
    /\ UNCHANGED <<serverRunState, serverHealth, serverThread, srvVars, st, exported,
                   milestones, hostRet, observed, startResult, waitResult, startsLeft,
                   fgnPc, faults,
                   queueVars, adapterVars, events, extVars>>

HostShutdownSet ==
    /\ hostPc = "sdSet"
    /\ serverRunState' = EStopping
    /\ hostPc' = "sdQuit"
    /\ UNCHANGED <<serverHealth, serverThread, srvVars, st, exported, milestones, hostRet,
                   observed, startResult, waitResult, startsLeft, fgnPc, faults,
                   queueVars, adapterVars, events, extVars>>

HostShutdownQuit ==
    /\ hostPc = "sdQuit"
    /\ adapter' = BluezAdapterShutdown(adapter)
    /\ loopQuit' = QuitAfterShutdown(pMainLoop, loopQuit)
    /\ hostPc' = hostRet
    /\ UNCHANGED <<serverRunState, serverHealth, serverThread, srvPc, procRet, pMainLoop,
                   updateTimer, st, exported, milestones, hostRet, observed, startResult,
                   waitResult, startsLeft, fgnPc, faults,
                   queueVars, recoveryTimer, bluez, bluezFaults, events, extVars>>

\* The last test of bzpStartWithBondable
StartSucceeds(state) == state = ERunning

\* if (bzpGetServerRunState() != ERunning) { bzpWait(); return 0; }  return 1;
HostCheck ==
    /\ hostPc = "check"
    /\ IF StartSucceeds(serverRunState)
       THEN /\ startResult' = 1
            /\ hostPc' = "idle"
       ELSE /\ startResult' = startResult
            /\ hostPc' = "startJoin"
    /\ UNCHANGED <<serverRunState, serverHealth, serverThread, srvVars, st, exported,
                   milestones, hostRet, observed, waitResult, startsLeft, fgnPc, faults,
                   queueVars, adapterVars, events, extVars>>

\* serverThread.join() returns when the thread function has returned (a thread that
\* is not joinable is not joined)
Joined(thread) == thread # "running"

\* bzpWait inside the failing bzpStartWithBondable, which then returns 0
HostStartJoin ==
    /\ hostPc = "startJoin"
    /\ Joined(serverThread)
    /\ serverThread' = "none"
    /\ startResult' = 0
    /\ hostPc' = "idle"
    /\ UNCHANGED <<serverRunState, serverHealth, srvVars, st, exported, milestones, hostRet,
                   observed, waitResult, startsLeft, fgnPc, faults,
                   queueVars, adapterVars, events, extVars>>

\* bzpShutdownAndWait: if (bzpIsServerRunning()) bzpTriggerShutdown(); return bzpWait();
HostShutdownAndWait ==
    /\ hostPc = "idle"
    /\ startResult # -1
    /\ waitResult' = -1
    /\ hostRet' = "waitJoin"
    /\ hostPc' = IF serverRunState <= ERunning THEN "sdCheck" ELSE "waitJoin"
    /\ events' = IF serverRunState <= ERunning THEN events \cup {"shutdown"} ELSE events
    /\ UNCHANGED <<serverRunState, serverHealth, serverThread, srvVars, st, exported,
                   milestones, observed, startResult, startsLeft, fgnPc, faults,
                   queueVars, adapterVars, extVars>>

\* bzpWait called by the host
HostCallWait ==
    /\ hostPc = "idle"
    /\ startResult # -1
    /\ waitResult' = -1
    /\ hostPc' = "waitJoin"
    /\ UNCHANGED <<serverRunState, serverHealth, serverThread, srvVars, st, exported,
                   milestones, hostRet, observed, startResult, startsLeft, fgnPc, faults,
                   queueVars, adapterVars, events, extVars>>

\* A bzpWait that would report the health
HealthyWaitResult(h) == IF h = EOk THEN 1 ELSE 0

\* The value bzpWait returns after the join: 1, whatever the health
WaitResult(h) == 1

HostWaitJoin ==
    /\ hostPc = "waitJoin"
    /\ Joined(serverThread)
    /\ serverThread' = "none"
    /\ waitResult' = WaitResult(serverHealth)
    /\ hostPc' = "idle"
    /\ UNCHANGED <<serverRunState, serverHealth, srvVars, st, exported, milestones, hostRet,
                   observed, startResult, startsLeft, fgnPc, faults,
                   queueVars, adapterVars, events, extVars>>

(***************************************************************************)
(* A foreign thread: bzpTriggerShutdown                                     *)
(***************************************************************************)

\* bzpTriggerShutdown is called while a server thread exists
FgnTriggerShutdown ==
    /\ fgnPc = "idle"
    /\ serverThread # "none"
    /\ fgnPc' = "sdCheck"
    /\ events' = events \cup {"shutdown"}
    /\ UNCHANGED <<serverRunState, serverHealth, serverThread, srvVars, st, exported,
                   milestones, hostVars, faults,
                   queueVars, adapterVars, extVars>>

FgnShutdownCheck ==
    /\ fgnPc = "sdCheck"
    /\ fgnPc' = IF ShutdownIgnored(serverRunState) THEN "idle" ELSE "sdSet"
    /\ UNCHANGED <<serverRunState, serverHealth, serverThread, srvVars, st, exported,
                   milestones, hostVars, faults,
                   queueVars, adapterVars, events, extVars>>

FgnShutdownSet ==
    /\ fgnPc = "sdSet"
    /\ serverRunState' = EStopping
    /\ fgnPc' = "sdQuit"
    /\ UNCHANGED <<serverHealth, serverThread, srvVars, st, exported, milestones, hostVars,
                   faults,
                   queueVars, adapterVars, events, extVars>>

FgnShutdownQuit ==
    /\ fgnPc = "sdQuit"
    /\ adapter' = BluezAdapterShutdown(adapter)
    /\ loopQuit' = QuitAfterShutdown(pMainLoop, loopQuit)
    /\ fgnPc' = "idle"
    /\ UNCHANGED <<serverRunState, serverHealth, serverThread, srvPc, procRet, pMainLoop,
                   updateTimer, st, exported, milestones, hostVars, faults,
                   queueVars, recoveryTimer, bluez, bluezFaults, events, extVars>>

\* bzpTriggerShutdown was called in this run, no call of shutdown() is under way on
\* the host or on a foreign thread (the one of the server thread is a single step),
\* and the run-state it left is Stopping or Stopped
ShutdownReturned ==
    /\ "shutdown" \in events
    /\ serverRunState > ERunning
    /\ hostPc \notin {"sdCheck", "sdSet", "sdQuit"}
    /\ fgnPc = "idle"

\* bzpTriggerShutdown was called in this run and every call of it has returned
TriggerShutdownReturned ==
    /\ "shutdown" \in events
    /\ hostPc \notin {"sdCheck", "sdSet", "sdQuit"}
    /\ fgnPc = "idle"

\* The steps of the server thread: runServerThread, the processor, the callbacks
ServerThread ==
    \/ ProcReturn \/ ProcBus \/ ProcName \/ ProcObjMgr \/ ProcFindAdapter \/ ProcConfigure
    \/ ProcRegisterObjects \/ ProcRegisterApplication \/ ProcInitialized \/ ProcHealth
    \/ ProcSetRunning
    \/ SrvBegin \/ SrvCreateLoop \/ SrvRunLoop \/ OnBusAcquired \/ OnNameAcquired
    \/ OnObjectManager \/ OnApplicationRegistered \/ OnPeriodicTimer
    \/ SrvLoopExit \/ SrvSetStopped \/ SrvUninit

\* The steps of the host thread after its call of bzpStart
HostThread ==
    \/ HostSpawn \/ HostWait \/ HostTimedOut \/ HostShutdownCheck
    \/ HostShutdownSet \/ HostShutdownQuit \/ HostCheck
    \/ HostStartJoin \/ HostShutdownAndWait \/ HostCallWait \/ HostWaitJoin

ServerAndHost == ServerThread \/ HostThread

Foreign == FgnTriggerShutdown \/ FgnShutdownCheck \/ FgnShutdownSet \/ FgnShutdownQuit

Lifecycle == HostStart \/ ServerAndHost \/ Foreign

\* BluezAdapter::onRetryTimeout: the property is set again. Whether that succeeds, is
\* given up or is tried once more changes nothing but the list of active retries,
\* which is empty in the end.
OnRetryTimeout ==
    /\ srvPc = "loop"
    /\ adapter.activeRetries > 0
    /\ adapter' = [adapter EXCEPT !.activeRetries = 0]
    /\ UNCHANGED <<serverRunState, serverHealth, serverThread, srvVars, st, exported,
                   milestones, hostVars, fgnPc, faults, queueVars, recoveryTimer, bluez,
                   bluezFaults, events, extVars>>

\* The loss of the owned name and the failure of setPowered are failures of the
\* environment
Next == Lifecycle \/ OnNameLost \/ OnRetryTimeout

Spec == Init /\ [][Next]_vars

\* One run in which the environment fails the server twice, so that a retry can fail
InitR ==
    Start /\ startsLeft = MaxRetryRuns /\ faults = MaxRetryFaults /\ bluezFaults = 0

SpecR == InitR /\ [][Next]_vars

(***************************************************************************)
(* The update queue and its dispatcher                                      *)
(***************************************************************************)

\* Object paths of the tree, one element per path segment, and interface names
Path(n) ==
    IF n = 1 THEN <<"com", "bzperi">>
    ELSE IF n = 2 THEN <<"com", "bzperi", "text">>
    ELSE IF n = 3 THEN <<"com", "bzperi", "text", "string">>
    ELSE IF n = 4 THEN <<"com", "bzperi", "text", "string", "description">>
    ELSE <<>>

InterfaceName(n) ==
    IF n = 2 THEN <<"org.bluez.GattService1">>
    ELSE IF n = 3 THEN <<"org.bluez.GattCharacteristic1">>
    ELSE IF n = 4 THEN <<"org.bluez.GattDescriptor1">>
    ELSE <<"org.freedesktop.DBus.ObjectManager">>

\* Only node 3 is a GattCharacteristic; a GattDescriptor is a GattInterface, not a
\* GattCharacteristic
IsGattCharacteristic(n) == n = 3

\* The flags the characteristic "string" and its descriptor are declared with
Flags(n) ==
    IF n = 3 THEN {"read", "write", "notify"}
    ELSE IF n = 4 THEN {"read"}
    ELSE {}

\* Server::findInterface: the interface with that name at that path, 0 when none
findInterface(path, iface) ==
    LET found == {n \in Nodes : HasInterface(n) /\ Path(n) = path /\ InterfaceName(n) = iface}
    IN  IF found = {} THEN 0 ELSE CHOOSE n \in found : TRUE

\* What the threads of the host push: bzpNofifyUpdatedCharacteristic and
\* bzpNofifyUpdatedDescriptor for the paths of the tree, and bzpPushUpdateQueue for a
\* path that is not in the tree
PushInputs ==
    { [path |-> Path(3), iface |-> InterfaceName(3)],
      [path |-> Path(4), iface |-> InterfaceName(4)],
      [path |-> <<"com", "other">>, iface |-> InterfaceName(3)] }

\* std::deque: index 1 is the front
PushBack(q, e) == Append(q, e)
PushFront(q, e) == <<e>> \o q
Back(q) == q[Len(q)]
PopBack(q) == SubSeq(q, 1, Len(q) - 1)

\* The string form of an entry
Encode(path, iface) == path \o <<"|">> \o iface

\* std::string::find('|'): the index of the first separator, 0 when there is none
RECURSIVE FindSeparator(_, _)
FindSeparator(s, i) ==
    IF i > Len(s) THEN 0
    ELSE IF s[i] = "|" THEN i
    ELSE FindSeparator(s, i + 1)

\* The buffer of idleFunc
kQueueEntryLen == 1024

\* The buffers a consumer passes to bzpPopUpdateQueue
BufferLens == {0, 2, kQueueEntryLen}

\* bzpPopUpdateQueue: the value returned, the element copied out (with the id of the
\* entry it came from) and the queue afterwards
bzpPopUpdateQueue(q, elementLen, keep) ==
    IF elementLen <= 0 THEN [ret |-> -1, id |-> 0, element |-> <<>>, queue |-> q]
    ELSE IF q = <<>> THEN [ret |-> 0, id |-> 0, element |-> <<>>, queue |-> q]
    ELSE LET result == Encode(Back(q).path, Back(q).iface)
         IN  IF Len(result) + 1 > elementLen
             THEN [ret |-> -1, id |-> 0, element |-> <<>>, queue |-> q]
             ELSE [ret |-> 1, id |-> Back(q).id, element |-> result,
                   queue |-> IF keep = 0 THEN PopBack(q) ELSE q]

\* bzpPushUpdateQueue, from any thread and in any run-state
Push ==
    /\ nextId < MaxPush
    /\ \E in \in PushInputs :
          updateQueue' = PushFront(updateQueue,
                                   [id |-> nextId + 1, path |-> in.path, iface |-> in.iface])
    /\ nextId' = nextId + 1
    /\ UNCHANGED <<serverRunState, serverHealth, serverThread, srvVars, st, exported,
                   milestones, hostVars, fgnPc, faults, dispatched,
                   lockVars, adapterVars, events, extVars>>

\* bzpPopUpdateQueue called by a consumer of the host
ConsumerPop ==
    /\ \E elementLen \in BufferLens, keep \in {0, 1} :
          updateQueue' = bzpPopUpdateQueue(updateQueue, elementLen, keep).queue
    /\ UNCHANGED <<serverRunState, serverHealth, serverThread, srvVars, st, exported,
                   milestones, hostVars, fgnPc, faults, nextId, dispatched,
                   lockVars, adapterVars, events, extVars>>

\* bzpUpdateQueueClear
Clear ==
    /\ updateQueue' = <<>>
    /\ UNCHANGED <<serverRunState, serverHealth, serverThread, srvVars, st, exported,
                   milestones, hostVars, fgnPc, faults, nextId, dispatched,
                   lockVars, adapterVars, events, extVars>>

\* The callback of the update timer: it removes the timer once the server is past
\* Running, otherwise it calls idleFunc
UpdateTick ==
    /\ srvPc = "loop"
    /\ updateTimer
    /\ IF serverRunState > ERunning
       THEN /\ updateTimer' = FALSE
            /\ srvPc' = srvPc
       ELSE /\ updateTimer' = updateTimer
            /\ srvPc' = "idle"
    /\ UNCHANGED <<serverRunState, serverHealth, serverThread, procRet, pMainLoop, loopQuit,
                   st, exported, milestones, hostVars, fgnPc, faults,
                   queueVars, adapterVars, events, extVars>>

\* idleFunc: nothing is done unless the server is running
IdleFunc ==
    /\ srvPc = "idle"
    /\ srvPc' = IF serverRunState # ERunning THEN "loop" ELSE "pop"
    /\ UNCHANGED <<serverRunState, serverHealth, serverThread, procRet, pMainLoop, loopQuit,
                   updateTimer, st, exported, milestones, hostVars, fgnPc, faults,
                   queueVars, adapterVars, events, extVars>>

\* What idleFunc does with the element it popped; handled is what the handler of the
\* characteristic returns (false as well when the characteristic has no handler)
Dispatch(element, handled) ==
    LET token == FindSeparator(element, 1)
        objectPath == SubSeq(element, 1, token - 1)
        interfaceName == SubSeq(element, token + 1, Len(element))
        pInterface == findInterface(objectPath, interfaceName)
    IN  IF token = 0 THEN "malformed"
        ELSE IF pInterface = 0 THEN "notFound"
        ELSE IF IsGattCharacteristic(pInterface)
             THEN IF handled THEN "updated" ELSE "failed"
        ELSE "ignored"

\* What the host installed on the characteristic with onUpdatedValue: nothing, or a
\* handler like the one of the sample services, which sends one change notification
\* and returns true
UpdatedValueFuncs == {"null", "notifies"}

\* GattCharacteristic::sendChangeNotificationVariant: one PropertiesChanged signal with
\* the key Value
sendChangeNotificationVariant(emitted) == emitted + 1

\* GattCharacteristic::callOnUpdatedValue: what it returns and how many signals were
\* emitted when it returns
callOnUpdatedValue(pOnUpdatedValueFunc) ==
    IF pOnUpdatedValueFunc = "null"
    THEN [ret |-> FALSE, signals |-> 0]
    ELSE [ret |-> TRUE, signals |-> sendChangeNotificationVariant(0)]

\* idleFunc: the entry at the back is popped without keep, then dispatched
IdlePop ==
    /\ srvPc = "pop"
    /\ LET r == bzpPopUpdateQueue(updateQueue, kQueueEntryLen, 0)
       IN  /\ updateQueue' = r.queue
           /\ IF r.ret # 1
              THEN dispatched' = dispatched
              ELSE \E func \in UpdatedValueFuncs :
                      LET u == callOnUpdatedValue(func)
                          outcome == Dispatch(r.element, u.ret)
                      IN  dispatched' = Append(dispatched,
                             [id |-> r.id,
                              path |-> SubSeq(r.element, 1, FindSeparator(r.element, 1) - 1),
                              outcome |-> outcome,
                              signals |-> IF outcome \in {"updated", "failed"}
                                          THEN u.signals ELSE 0,
                              state |-> serverRunState])
    /\ srvPc' = "loop"
    /\ UNCHANGED <<serverRunState, serverHealth, serverThread, procRet, pMainLoop, loopQuit,
                   updateTimer, st, exported, milestones, hostVars, fgnPc, faults, nextId,
                   lockVars, adapterVars, events, extVars>>

Queue == Push \/ ConsumerPop \/ Clear \/ UpdateTick \/ IdleFunc \/ IdlePop

\* The queue is exercised in an environment that does not fail the server
InitQ == Start /\ startsLeft = MaxQueueRuns /\ faults = 0 /\ bluezFaults = 0

NextQ == Lifecycle \/ Queue

SpecQ == InitQ /\ [][NextQ]_vars

(***************************************************************************)
(* BluezAdapter while the BlueZ daemon comes and goes                       *)
(***************************************************************************)

\* BluezAdapter::onNameOwnerChanged for org.bluez with an empty new owner, delivered
\* while the adapter holds its subscription: the daemon has left the bus, and what
\* was registered with it is gone. A timeout of 5 s is attached; its id is dropped.
OnNameOwnerChanged ==
    /\ srvPc = "loop"
    /\ adapter.initialized
    /\ bluez.present
    /\ bluezFaults > 0
    /\ recoveryTimer = "none"
    /\ bluez' = [present |-> FALSE, application |-> FALSE, advertisement |-> FALSE,
                 devices |-> [p \in DevicePaths |-> "none"]]
    /\ bluezFaults' = bluezFaults - 1
    /\ recoveryTimer' = "first"
    /\ events' = events \cup {"bluezLost"}
                        \cup (IF serverRunState = ERunning THEN {"lostWhileRunning"} ELSE {})
    /\ UNCHANGED <<serverRunState, serverHealth, serverThread, srvVars, st, exported,
                   milestones, hostVars, fgnPc, faults, queueVars, adapter, extVars>>

\* The daemon is started again (onNameOwnerChanged with a new owner only logs)
BluezReturns ==
    /\ ~bluez.present
    /\ bluez' = [bluez EXCEPT !.present = TRUE]
    /\ UNCHANGED <<serverRunState, serverHealth, serverThread, srvVars, st, exported,
                   milestones, hostVars, fgnPc, faults, queueVars, adapter, recoveryTimer,
                   bluezFaults, events, extVars>>

\* The callback of the 5 s timeout: adapter->shutdown(), adapter->initialize(); on
\* success setAdvertisingAsync(true) when an advertisement object exists, otherwise a
\* timeout of 15 s is attached
OnRecoveryTimer ==
    /\ srvPc = "loop"
    /\ recoveryTimer = "first"
    /\ LET a == BluezAdapterShutdown(adapter)
       IN  IF CanInitialize(a, bluez)
           THEN /\ adapter' = [a EXCEPT !.initialized = TRUE,
                                        !.registerCall = IF a.advertisement # "none"
                                                         THEN "first" ELSE @]
                /\ recoveryTimer' = "none"
                /\ events' = events \cup {"recovered"}
           ELSE /\ adapter' = a
                /\ recoveryTimer' = "second"
                /\ events' = events \cup {"recoveryFailed"}
    /\ UNCHANGED <<serverRunState, serverHealth, serverThread, srvVars, st, exported,
                   milestones, hostVars, fgnPc, faults, queueVars, bluez, bluezFaults,
                   extVars>>

\* The callback of the 15 s timeout: adapter->initialize(), whose result is logged
OnSecondRecoveryTimer ==
    /\ srvPc = "loop"
    /\ recoveryTimer = "second"
    /\ IF CanInitialize(adapter, bluez)
       THEN /\ adapter' = [adapter EXCEPT !.initialized = TRUE]
            /\ events' = events \cup {"recoveredLate"}
       ELSE /\ adapter' = adapter
            /\ events' = events \cup {"secondRecoveryFailed"}
    /\ recoveryTimer' = "none"
    /\ UNCHANGED <<serverRunState, serverHealth, serverThread, srvVars, st, exported,
                   milestones, hostVars, fgnPc, faults, queueVars, bluez, bluezFaults,
                   extVars>>

\* The callback of RegisterAdvertisement. Success sets registered_ and ends an
\* advertising retry. A failure of the call issued by setAdvertisingAsync schedules
\* an advertising retry; a failure of a call issued by the retry schedules the next
\* attempt while the retry state exists and attempts are left, else the retry ends.
OnRegisterAdvertisement ==
    /\ srvPc = "loop"
    /\ adapter.registerCall # "none"
    /\ \E registered \in BOOLEAN, again \in BOOLEAN :
          /\ BluezMayFail(registered)
          /\ bluezFaults' = BluezSpend(registered)
          /\ IF registered
             THEN /\ again
                  /\ adapter' = [adapter EXCEPT !.registerCall = "none",
                                                !.advertisement = "registered",
                                                !.activeAdvertisingRetry = "none"]
                  /\ bluez' = [bluez EXCEPT !.advertisement = TRUE]
             ELSE /\ again => (adapter.registerCall = "first"
                                  \/ adapter.activeAdvertisingRetry = "calling")
                  /\ adapter.registerCall = "first" => again
                  /\ adapter' = [adapter EXCEPT !.registerCall = "none",
                                                !.activeAdvertisingRetry =
                                                    IF again THEN "scheduled" ELSE "none"]
                  /\ bluez' = bluez
    /\ UNCHANGED <<serverRunState, serverHealth, serverThread, srvVars, st, exported,
                   milestones, hostVars, fgnPc, faults, queueVars, recoveryTimer, events,
                   extVars>>

\* BluezAdapter::onAdvertisingRetryTimeout: RegisterAdvertisement is called again
OnAdvertisingRetryTimeout ==
    /\ srvPc = "loop"
    /\ adapter.activeAdvertisingRetry = "scheduled"
    /\ adapter' = [adapter EXCEPT !.activeAdvertisingRetry = "calling",
                                  !.registerCall = "retry"]
    /\ UNCHANGED <<serverRunState, serverHealth, serverThread, srvVars, st, exported,
                   milestones, hostVars, fgnPc, faults, queueVars, recoveryTimer, bluez,
                   bluezFaults, events, extVars>>

Adapter ==
    \/ OnNameOwnerChanged \/ BluezReturns \/ OnRecoveryTimer \/ OnSecondRecoveryTimer
    \/ OnRegisterAdvertisement \/ OnAdvertisingRetryTimeout

\* The daemon fails MaxBluezFaults times; nothing else does
InitA == Start /\ startsLeft = MaxAdapterRuns /\ faults = 0 /\ bluezFaults = MaxBluezFaults

NextA == Lifecycle \/ Adapter

SpecA == InitA /\ [][NextA]_vars

(***************************************************************************)
(* Connection tracking: the signals of BlueZ about its Device1 objects and  *)
(* the handlers of BluezAdapter                                             *)
(***************************************************************************)

connRest == <<serverRunState, serverHealth, serverThread, srvVars, st, exported,
              milestones, hostVars, fgnPc, faults, queueVars, recoveryTimer, bluezFaults,
              events, retryVars, cfgVars, waitVars, argVars>>

\* connectionCallback(connected, path), when one is set
Callback(a, connected, path) ==
    IF a.connectionCallback THEN <<[connected |-> connected, path |-> path]>> ELSE <<>>

\* BluezAdapter::handleDeviceConnected: a path that has no entry gets one, is counted
\* and is reported; a path that has an entry is left alone
handleDeviceConnected(a, devicePath) ==
    IF a.connectedDevices[devicePath] = "absent"
    THEN [ adapter |-> [a EXCEPT !.connectedDevices[devicePath] = "connected",
                                 !.activeConnections = @ + 1],
           emitted |-> Callback(a, TRUE, devicePath) ]
    ELSE [ adapter |-> a, emitted |-> <<>> ]

\* BluezAdapter::handleDeviceDisconnected: an entry that says connected is marked
\* disconnected (it stays in the map), the count goes down and the path is reported
handleDeviceDisconnected(a, devicePath) ==
    IF a.connectedDevices[devicePath] = "connected"
    THEN [ adapter |-> [a EXCEPT !.connectedDevices[devicePath] = "disconnected",
                                 !.activeConnections = @ - 1],
           emitted |-> Callback(a, FALSE, devicePath) ]
    ELSE [ adapter |-> a, emitted |-> <<>> ]

\* BluezAdapter::onPropertiesChanged for org.bluez.Device1: the Connected property of
\* a device BlueZ knows has changed
OnPropertiesChanged ==
    /\ adapter.initialized
    /\ \E path \in DevicePaths, connected \in BOOLEAN :
          /\ bluez.devices[path] = IF connected THEN "idle" ELSE "connected"
          /\ bluez' = [bluez EXCEPT !.devices[path] =
                                       IF connected THEN "connected" ELSE "idle"]
          /\ LET r == IF connected THEN handleDeviceConnected(adapter, path)
                      ELSE handleDeviceDisconnected(adapter, path)
             IN  /\ adapter' = r.adapter
                 /\ callbacks' = r.emitted
    /\ UNCHANGED connRest

\* BluezAdapter::onInterfacesAdded: BlueZ announces a Device1 object, connected or not
OnInterfacesAdded ==
    /\ adapter.initialized
    /\ \E path \in DevicePaths, connected \in BOOLEAN :
          /\ bluez.devices[path] = "none"
          /\ bluez' = [bluez EXCEPT !.devices[path] =
                                       IF connected THEN "connected" ELSE "idle"]
          /\ LET r == IF connected THEN handleDeviceConnected(adapter, path)
                      ELSE [adapter |-> adapter, emitted |-> <<>>]
             IN  /\ adapter' = r.adapter
                 /\ callbacks' = r.emitted
    /\ UNCHANGED connRest

\* BluezAdapter::onInterfacesRemoved: BlueZ withdraws a Device1 object; an entry of
\* the path is reported as disconnected when it says connected, then erased
OnInterfacesRemoved ==
    /\ adapter.initialized
    /\ \E path \in DevicePaths :
          /\ bluez.devices[path] # "none"
          /\ bluez' = [bluez EXCEPT !.devices[path] = "none"]
          /\ LET r == IF adapter.connectedDevices[path] = "absent"
                      THEN [adapter |-> adapter, emitted |-> <<>>]
                      ELSE handleDeviceDisconnected(adapter, path)
             IN  /\ adapter' = [r.adapter EXCEPT !.connectedDevices[path] = "absent"]
                 /\ callbacks' = r.emitted
    /\ UNCHANGED connRest

\* BluezAdapter::setConnectionCallback
SetConnectionCallback ==
    /\ ~adapter.connectionCallback
    /\ adapter' = [adapter EXCEPT !.connectionCallback = TRUE]
    /\ UNCHANGED <<connRest, bluez, callbacks>>

\* BluezAdapter::initialize() with the daemon on the bus: the signals are subscribed
AdapterInitialize ==
    /\ ~adapter.initialized
    /\ CanInitialize(adapter, bluez)
    /\ adapter' = [adapter EXCEPT !.initialized = TRUE]
    /\ UNCHANGED <<connRest, bluez, callbacks>>

\* The adapter is used without a server: nothing fails, the host starts nothing
InitC == Start /\ startsLeft = 0 /\ faults = 0 /\ bluezFaults = 0

NextC ==
    \/ SetConnectionCallback \/ AdapterInitialize
    \/ OnPropertiesChanged \/ OnInterfacesAdded \/ OnInterfacesRemoved

SpecC == InitC /\ [][NextC]_vars

(***************************************************************************)
(* The retry paths of BluezAdapter: the error classes of BluezTypes.cpp,    *)
(* the retry of a property write and the retry of RegisterAdvertisement,    *)
(* with the calls in flight and the timers one by one                       *)
(***************************************************************************)

\* Everything but the adapter, its advertisement and its retries
retryRest == <<serverRunState, serverHealth, serverThread, srvVars, st, exported,
               milestones, hostVars, fgnPc, faults, queueVars, recoveryTimer, bluezFaults,
               events, callbacks, cfgVars, waitVars, argVars>>

\* The substrings mapDBusErrorName looks for. An error message is modelled by the
\* set of these it contains
Keywords == {"PermissionDenied", "AccessDenied", "NotReady", "NotSupported",
             "NotImplemented", "InProgress", "Failed", "InvalidArguments",
             "InvalidArgs", "AlreadyExists", "DoesNotExist", "NotFound", "Timeout"}

Messages == {m \in SUBSET Keywords : Cardinality(m) <= MaxKeywords}

\* mapDBusErrorName: the first test that finds its substring decides
mapDBusErrorName(errorName) ==
    IF "PermissionDenied" \in errorName \/ "AccessDenied" \in errorName
        THEN "PermissionDenied"
    ELSE IF "NotReady" \in errorName THEN "NotReady"
    ELSE IF "NotSupported" \in errorName \/ "NotImplemented" \in errorName
        THEN "NotSupported"
    ELSE IF "InProgress" \in errorName THEN "InProgress"
    ELSE IF "Failed" \in errorName THEN "Failed"
    ELSE IF "InvalidArguments" \in errorName \/ "InvalidArgs" \in errorName
        THEN "InvalidArgs"
    ELSE IF "AlreadyExists" \in errorName THEN "AlreadyExists"
    ELSE IF "DoesNotExist" \in errorName \/ "NotFound" \in errorName THEN "NotFound"
    ELSE IF "Timeout" \in errorName THEN "Timeout"
    ELSE "Unknown"

\* An isRetryableError that also retries what a second attempt cannot cure
isRetryableErrorLoose(error) ==
    error \in {"InProgress", "NotReady", "Timeout", "Failed", "AlreadyExists"}

\* isRetryableError(BluezError)
isRetryableError(error) == error \in {"InProgress", "NotReady", "Timeout", "Failed"}

\* What a bus call comes back with: success, or a GError with a message
Replies == {[success |-> TRUE, message |-> {}]}
               \cup {[success |-> FALSE, message |-> m] : m \in Messages}

\* BluezResult<void>::fromGError: the class of the error's message; "Success" stands
\* for a result without error
fromGError(reply) == IF reply.success THEN "Success" ELSE mapDBusErrorName(reply.message)

\* The results a bus call can come back with, as its callback sees them
Results == {fromGError(reply) : reply \in Replies}

Succeeded(result) == result = "Success"

\* The test the advertising path makes on a failure
AdvertisingRetryable(error) ==
    isRetryableError(error) \/ error = "Timeout" \/ error = "Failed"

\* RetryPolicy{3, 1000, 5000, 2.0}.maxAttempts and RetryPolicy{5, 2000, 30000, 2.0}.maxAttempts
DefaultMaxAttempts == 3
AdvertisingMaxAttempts == 5

\* The test of the advertising retry on its attempt counter
AttemptsLeft(currentAttempt, maxAttempts) == currentAttempt < maxAttempts

\* A disable that asks only whether an advertisement object exists
HasAdvertisement(a) == a.advertisement

\* The test of setAdvertisingAsync(false): advertisement && advertisement->isRegistered()
IsRegistered(a) == a.advertisement /\ a.registered

\* The property path after a step that ran no operation of it
QuietProp(r) == [r EXCEPT !.error = "None", !.scheduled = FALSE]

\* The advertising path at the start of a step: what the last step called, sent,
\* reported and handled is forgotten
QuietAdv(r) ==
    [r EXCEPT !.call = "none", !.busCall = "none", !.reported = "none",
              !.error = "None", !.scheduled = FALSE]

\* retryOperationWithTimeout: the operation runs once; a retryable failure makes
\* scheduleAsyncRetry add a RetryState with currentAttempt 1 and its timer
retryOperationWithTimeout(p, result) ==
    IF Succeeded(result) \/ ~isRetryableError(result)
        THEN [p EXCEPT !.error = IF Succeeded(result) THEN "None" ELSE result,
                       !.scheduled = FALSE]
        ELSE [p EXCEPT !.activeRetries = Append(@, 1),
                       !.error = result, !.scheduled = TRUE]

\* BluezAdapter::setAdapterProperty on an initialized adapter, for a writable property
SetAdapterProperty ==
    /\ adapter.initialized
    /\ prop.callsLeft > 0
    /\ \E result \in Results :
          prop' = [retryOperationWithTimeout(prop, result) EXCEPT !.callsLeft = @ - 1]
    /\ adv' = QuietAdv(adv)
    /\ UNCHANGED <<retryRest, adapter, bluez>>

\* The sequence without its i-th element
RemoveAt(q, i) == SubSeq(q, 1, i - 1) \o SubSeq(q, i + 1, Len(q))

\* BluezAdapter::onRetryTimeout for the i-th RetryState: the operation runs again, with
\* a property name and a value that the first call has left dangling, so that any reply
\* may come back. The state is erased on success, on an error that is not retryable and
\* at maxAttempts; otherwise the attempt is counted and a new timer attached.
RetryTimeout ==
    /\ \E i \in 1..Len(prop.activeRetries), result \in Results :
          LET currentAttempt == prop.activeRetries[i] IN
          prop' = IF Succeeded(result) \/ ~isRetryableError(result)
                         \/ currentAttempt >= DefaultMaxAttempts
                      THEN [prop EXCEPT !.activeRetries = RemoveAt(@, i),
                                        !.error = IF Succeeded(result) THEN "None" ELSE result,
                                        !.scheduled = FALSE]
                      ELSE [prop EXCEPT !.activeRetries[i] = currentAttempt + 1,
                                        !.error = result, !.scheduled = TRUE]
    /\ adv' = QuietAdv(adv)
    /\ UNCHANGED <<retryRest, adapter, bluez>>

\* scheduleAdvertisingRetry: a new AdvertisingRetryState with currentAttempt 1 takes
\* the place of any other, and a timer is attached
scheduleAdvertisingRetry(a) ==
    [a EXCEPT !.activeAdvertisingRetry = 1, !.timers = @ + 1, !.timerOfState = TRUE,
              !.reattempts = 0]

\* The start of setAdvertisingAsync on an initialized adapter: the timer of an
\* AdvertisingRetryState is removed and the state reset
CancelAdvertisingRetry(a) ==
    IF a.activeAdvertisingRetry # 0
        THEN [a EXCEPT !.activeAdvertisingRetry = 0,
                       !.timers = IF a.timerOfState THEN @ - 1 ELSE @,
                       !.timerOfState = FALSE]
        ELSE a

\* BluezAdapter::setAdvertisingAsync(enabled, callback). Its callers (setAdvertising,
\* which iterates the loop until the first reply is handled, and the recovery
\* timer, which runs after the daemon has left and its pending calls were answered)
\* do not call it while the reply to the RegisterAdvertisement of an earlier call is
\* outstanding.
SetAdvertisingAsync ==
    /\ adv.callsLeft > 0
    /\ adv.firstCalls = 0
    /\ \E enabled \in BOOLEAN, powered \in BOOLEAN, result \in Results :
          LET a == [QuietAdv(adv) EXCEPT !.callsLeft = @ - 1,
                                         !.call = IF enabled THEN "enable" ELSE "disable",
                                         !.disabled = IF adapter.initialized
                                                      THEN ~enabled ELSE @]
              c == CancelAdvertisingRetry(a) IN
          IF ~adapter.initialized
              THEN /\ adv' = [a EXCEPT !.reported = "NotReady"]
                   /\ prop' = QuietProp(prop)
          ELSE IF enabled
              THEN /\ prop' = IF powered THEN QuietProp(prop)
                              ELSE retryOperationWithTimeout(prop, result)
                   /\ adv' = IF ~powered /\ ~Succeeded(result)
                                 THEN [c EXCEPT !.reported = "NotReady"]
                                 ELSE [c EXCEPT !.advertisement = TRUE,
                                                !.firstCalls = @ + 1,
                                                !.busCall = "RegisterAdvertisement"]
              ELSE /\ prop' = QuietProp(prop)
                   /\ adv' = IF IsRegistered(c)
                                 THEN [c EXCEPT !.unregisterCalls = @ + 1,
                                                !.busCall = "UnregisterAdvertisement"]
                                 ELSE [c EXCEPT !.reported = "Success"]
    /\ UNCHANGED <<retryRest, adapter, bluez>>

\* The reply to the RegisterAdvertisement sent by setAdvertisingAsync:
\* onRegisterAdvertisementCallback sets registered_ on success, then the lambda of
\* setAdvertisingAsync reports the result or schedules the retry
RegisterAdvertisementReply ==
    /\ adv.firstCalls > 0
    /\ \E result \in Results :
          LET a == [QuietAdv(adv) EXCEPT !.firstCalls = @ - 1] IN
          /\ Succeeded(result) => bluez.present /\ ~bluez.advertisement
          /\ adv' = IF Succeeded(result)
                        THEN [a EXCEPT !.registered = TRUE, !.reported = "Success"]
                    ELSE IF AdvertisingRetryable(result)
                        THEN [scheduleAdvertisingRetry(a) EXCEPT
                                  !.error = result, !.scheduled = TRUE]
                    ELSE [a EXCEPT !.reported = result, !.error = result]
          /\ bluez' = IF Succeeded(result) THEN [bluez EXCEPT !.advertisement = TRUE] ELSE bluez
    /\ prop' = QuietProp(prop)
    /\ UNCHANGED <<retryRest, adapter>>

\* BluezAdapter::onAdvertisingRetryTimeout: nothing without a retry state; otherwise
\* RegisterAdvertisement is sent again on adapter->dbusConnection. After shutdown()
\* that pointer is null: g_dbus_connection_call returns at once, sends nothing and
\* never calls back.
AdvertisingRetryTimeout ==
    /\ adv.timers > 0
    /\ \E ofState \in {adv.timerOfState, adv.timerOfState /\ adv.timers = 1} :
          LET a == [QuietAdv(adv) EXCEPT !.timers = @ - 1,
                                       !.timerOfState = @ /\ ~ofState] IN
          adv' = IF a.activeAdvertisingRetry = 0 THEN a
                 ELSE IF ~adapter.initialized
                     THEN [a EXCEPT !.advertisement = TRUE]
                 ELSE [a EXCEPT !.advertisement = TRUE,
                                !.retryCalls = @ + 1,
                                !.reattempts = @ + 1,
                                !.busCall = "RegisterAdvertisement"]
    /\ prop' = QuietProp(prop)
    /\ UNCHANGED <<retryRest, adapter, bluez>>

\* The reply to a RegisterAdvertisement sent by onAdvertisingRetryTimeout, handled by
\* its lambda: success ends the retry; a failure is counted and a new timer attached
\* while the state exists, attempts are left and the error is retryable; any other
\* failure ends the retry. Ending removes the timer of the state and resets the state.
AdvertisingRetryReply ==
    /\ adv.retryCalls > 0
    /\ \E result \in Results :
          LET a == [QuietAdv(adv) EXCEPT !.retryCalls = @ - 1]
              ended == CancelAdvertisingRetry(a) IN
          /\ Succeeded(result) => bluez.present /\ ~bluez.advertisement
          /\ adv' = IF Succeeded(result)
                        THEN [ended EXCEPT !.registered = TRUE, !.reported = "Success"]
                    ELSE IF /\ a.activeAdvertisingRetry # 0
                            /\ AttemptsLeft(a.activeAdvertisingRetry, AdvertisingMaxAttempts)
                            /\ AdvertisingRetryable(result)
                        THEN [a EXCEPT !.activeAdvertisingRetry = @ + 1,
                                       !.timers = IF a.timerOfState THEN @ ELSE @ + 1,
                                       !.timerOfState = TRUE,
                                       !.error = result, !.scheduled = TRUE]
                    ELSE [ended EXCEPT !.reported = result, !.error = result]
          /\ bluez' = IF Succeeded(result) THEN [bluez EXCEPT !.advertisement = TRUE] ELSE bluez
    /\ prop' = QuietProp(prop)
    /\ UNCHANGED <<retryRest, adapter>>

\* The reply to UnregisterAdvertisement: onUnregisterAdvertisementCallback clears
\* registered_ on success; the lambda of setAdvertisingAsync reports the result
UnregisterAdvertisementReply ==
    /\ adv.unregisterCalls > 0
    /\ \E result \in Results :
          LET a == [QuietAdv(adv) EXCEPT !.unregisterCalls = @ - 1] IN
          /\ Succeeded(result) => bluez.present /\ bluez.advertisement
          /\ adv' = IF Succeeded(result)
                        THEN [a EXCEPT !.registered = FALSE, !.reported = "Success"]
                        ELSE [a EXCEPT !.reported = result]
          /\ bluez' = IF Succeeded(result) THEN [bluez EXCEPT !.advertisement = FALSE] ELSE bluez
    /\ prop' = QuietProp(prop)
    /\ UNCHANGED <<retryRest, adapter>>

\* BluezAdvertisement::onMethodCall for "Release": BlueZ has dropped the
\* advertisement and says so
Release ==
    /\ adv.advertisement
    /\ bluez.advertisement
    /\ adv' = [QuietAdv(adv) EXCEPT !.registered = FALSE]
    /\ bluez' = [bluez EXCEPT !.advertisement = FALSE]
    /\ prop' = QuietProp(prop)
    /\ UNCHANGED <<retryRest, adapter>>

\* BluezAdapter::shutdown(): every retry timer is removed, both kinds of retry
\* state are dropped; the advertisement object and its registered_ stay
ShutdownAdapter ==
    /\ adapter.initialized
    /\ adapter' = BluezAdapterShutdown(adapter)
    /\ adv' = CancelAdvertisingRetry(QuietAdv(adv))
    /\ prop' = [QuietProp(prop) EXCEPT !.activeRetries = <<>>]
    /\ UNCHANGED <<retryRest, bluez>>

\* BluezAdapter::initialize() with the daemon on the bus
InitializeAdapter ==
    /\ ~adapter.initialized
    /\ CanInitialize(adapter, bluez)
    /\ adv.initsLeft > 0
    /\ adapter' = [adapter EXCEPT !.initialized = TRUE]
    /\ adv' = [QuietAdv(adv) EXCEPT !.initsLeft = @ - 1]
    /\ prop' = QuietProp(prop)
    /\ UNCHANGED <<retryRest, bluez>>

\* The adapter is used without a server, as often as the bounds allow
InitV ==
    /\ Start
    /\ startsLeft = 0 /\ faults = 0 /\ bluezFaults = 0

NextV ==
    \/ InitializeAdapter \/ ShutdownAdapter
    \/ SetAdapterProperty \/ RetryTimeout
    \/ SetAdvertisingAsync \/ RegisterAdvertisementReply
    \/ AdvertisingRetryTimeout \/ AdvertisingRetryReply
    \/ UnregisterAdvertisementReply \/ Release

SpecV == InitV /\ [][NextV]_vars

\* The loop runs: an attached timer fires and a call that was sent is answered
FairV ==
    /\ WF_vars(AdvertisingRetryTimeout)
    /\ WF_vars(RegisterAdvertisementReply)
    /\ WF_vars(AdvertisingRetryReply)
    /\ WF_vars(RetryTimeout)

SpecVF == InitV /\ [][NextV]_vars /\ FairV

(***************************************************************************)
(* Restart: the life cycle run twice in one process, with nothing failing   *)
(***************************************************************************)

\* The object manager node of Server::Server is not published
Published(n) == n # 5

RECURSIVE PreOrder(_), PreOrderEach(_, _)

\* A node, then its children from first to last
PreOrder(n) == <<n>> \o PreOrderEach(Children(n), 1)

PreOrderEach(cs, i) ==
    IF i > Len(cs) THEN <<>> ELSE PreOrder(cs[i]) \o PreOrderEach(cs, i + 1)

\* The enumeration of GetManagedObjects: the interface of every published node, by
\* object path, in pre-order from the root
ManagedObjects ==
    LET nodes == SelectSeq(PreOrder(1), LAMBDA n : Published(n) /\ HasInterface(n))
    IN  [i \in 1..Len(nodes) |-> [path |-> Path(nodes[i]),
                                  interface |-> InterfaceName(nodes[i])]]

\* What a call of GetManagedObjects on the root returns: the enumeration while the
\* ObjectManager interface is exported on the connection, nothing otherwise
GetManagedObjects(exp) == IF 5 \in exp THEN ManagedObjects ELSE <<>>

\* The host starts the server twice; nothing in the environment fails
InitS == Start /\ startsLeft = MaxRestartRuns /\ faults = 0 /\ bluezFaults = 0

SpecS == InitS /\ [][Lifecycle]_vars

(***************************************************************************)
(* One run of the lifecycle in which every thread keeps running             *)
(***************************************************************************)

InitF == Start /\ startsLeft = 1 /\ faults = 0 /\ bluezFaults = 0

\* The scheduler gives each thread its turn: a thread that can take a step takes one.
\* The host and the foreign thread need not call anything: HostStart and
\* FgnTriggerShutdown are calls the application may never make.
FairF ==
    /\ WF_vars(ServerThread)
    /\ WF_vars(HostThread)
    /\ WF_vars(FgnShutdownCheck \/ FgnShutdownSet \/ FgnShutdownQuit)

SpecF == InitF /\ [][Lifecycle]_vars /\ FairF

(***************************************************************************)
(* The arguments of bzpStartWithBondable: what is tested before the server  *)
(* is allocated, and what Server::Server tests                              *)
(***************************************************************************)

\* Everything but the configuration and the configurators
configRest == <<serverRunState, serverHealth, serverThread, srvVars, st, exported,
                milestones, hostVars, fgnPc, faults, queueVars, adapterVars, events,
                callbacks, retryVars, waitVars, argVars>>

\* A service name is a sequence of these pieces; "null" stands for a null pointer
NamePieces == {"bzperi", "BzPeri", "bzperi.", "x250"}

\* strlen of a piece; "x250" is an identifier of 250 bytes
PieceLen(p) ==
    IF p = "bzperi." THEN 7
    ELSE IF p = "x250" THEN 250
    ELSE 6

RECURSIVE strlen(_)
strlen(name) == IF name = <<>> THEN 0 ELSE PieceLen(Head(name)) + strlen(Tail(name))

\* ::tolower over the name
ToLowerPiece(p) == IF p = "BzPeri" THEN "bzperi" ELSE p
tolower(name) == [i \in 1..Len(name) |-> ToLowerPiece(name[i])]

ServiceNames ==
    UNION {[1..n -> NamePieces] : n \in 0..MaxNamePieces}

\* The values of maxAsyncInitTimeoutMS that are tried: both ends of the range and
\* their neighbours
InitTimeouts == {99, 100, 60000, 60001}

\* The pointers among the arguments, besides the service name
Pointers == {"pAdvertisingName", "pAdvertisingShortName", "getter", "setter"}

\* The arguments of a call: the service name or a null pointer for it, the other
\* pointers that are null, and the timeout
Configs ==
    [ serviceNameNull : BOOLEAN, serviceName : ServiceNames,
      nulls : {N \in SUBSET Pointers : Cardinality(N) <= MaxNullPointers},
      maxAsyncInitTimeoutMS : InitTimeouts ]

\* A range test that lets 60001 through
InitTimeoutRefusedAbove(ms) == ms < 100 \/ ms > 60001

\* if (maxAsyncInitTimeoutMS < 100 || maxAsyncInitTimeoutMS > 60000) return 0;
InitTimeoutRefused(ms) == ms < 100 \/ ms > 60000

\* The input validation of bzpStartWithBondable: the tests that return 0
ArgumentsRefused(c) ==
    \/ c.serviceNameNull \/ strlen(c.serviceName) = 0
    \/ "pAdvertisingName" \in c.nulls
    \/ "pAdvertisingShortName" \in c.nulls
    \/ "getter" \in c.nulls
    \/ "setter" \in c.nulls
    \/ InitTimeoutRefused(c.maxAsyncInitTimeoutMS)
    \/ strlen(c.serviceName) > 255

\* Server::Server throws std::invalid_argument unless the lower-cased name is "bzperi"
\* or begins with "bzperi."; catch (...) of bzpStartWithBondable returns 0
ConstructorThrows(c) ==
    LET lowerServiceName == tolower(c.serviceName) IN
    ~(lowerServiceName = <<"bzperi">> \/ Head(lowerServiceName) = "bzperi.")

\* applyRegisteredServiceConfigurators, run alone: every registered configurator is
\* called, in the order of registration
ApplyAll(log, configurators) == log \o configurators

\* registerServiceConfigurator, called by the host between two runs
HostRegisterConfigurator ==
    /\ hostPc = "idle"
    /\ Len(registry) < MaxConfigurators
    /\ registry' = Append(registry, Len(registry) + 1)
    /\ UNCHANGED <<configRest, config, applied, regVars>>

\* bzpStartWithBondable with any arguments. A call that is refused returns 0 from the
\* validation or from the catch around the allocation of the server; any other call
\* goes on as HostStart does, and applies the configurators.
HostStartWith ==
    /\ hostPc = "idle"
    /\ serverThread = "none"
    /\ startsLeft > 0
    /\ \E c \in Configs :
          /\ config' = c
          /\ startsLeft' = startsLeft - 1
          /\ IF ArgumentsRefused(c) \/ ConstructorThrows(c)
             THEN /\ startResult' = 0
                  /\ UNCHANGED <<serverHealth, milestones, waitResult, observed, events,
                                 hostPc, applied>>
             ELSE /\ serverHealth' = HealthAtStart(serverHealth)
                  /\ milestones' = <<>>
                  /\ startResult' = -1
                  /\ waitResult' = -1
                  /\ observed' = NotWaited
                  /\ events' = IF startResult = 1 THEN {"restart"} ELSE {}
                  /\ hostPc' = "spawn"
                  /\ applied' = ApplyAll(applied, registry)
    /\ UNCHANGED <<serverRunState, serverThread, srvVars, st, exported, hostRet, fgnPc,
                   faults, queueVars, adapterVars, callbacks, retryVars, registry, regVars,
                   waitVars, argVars>>

\* The host calls bzpStart with arguments of every kind; nothing in the environment
\* fails
InitG == Start /\ startsLeft = MaxConfigRuns /\ faults = 0 /\ bluezFaults = 0

NextG == HostStartWith \/ HostRegisterConfigurator \/ ServerAndHost

SpecG == InitG /\ [][NextG]_vars

(***************************************************************************)
(* bzpStartWithBondable called while the server thread of an earlier call   *)
(* exists                                                                   *)
(***************************************************************************)

\* The arguments of such a call: a service name of one piece, no null pointer
AgainConfigs ==
    {c \in Configs : /\ ~c.serviceNameNull /\ Len(c.serviceName) = 1 /\ c.nulls = {}
                     /\ c.maxAsyncInitTimeoutMS = 100}

\* bzpStartWithBondable on any thread while serverThread is joinable and the server is
\* Initializing or Running; the function tests neither. The validation and a throwing
\* constructor return 0 as in HostStartWith. Otherwise TheServer is assigned the new server, the
\* configurators are applied to it, and the move assignment
\* serverThread = std::thread(runServerThread) to a joinable std::thread calls
\* std::terminate, which the catch (...) does not see: no thread of the process takes
\* another step.
StartAgain ==
    /\ serverThread = "running"
    /\ serverRunState \in {EInitializing, ERunning}
    /\ startsLeft > 0
    /\ startsLeft' = startsLeft - 1
    /\ \E c \in AgainConfigs :
          IF ArgumentsRefused(c) \/ ConstructorThrows(c)
          THEN UNCHANGED <<config, applied, serverThread, srvPc, hostPc>>
          ELSE /\ config' = c
               /\ applied' = ApplyAll(applied, registry)
               /\ serverThread' = "terminated"
               /\ srvPc' = "terminated"
               /\ hostPc' = "terminated"
    /\ UNCHANGED <<serverRunState, serverHealth, procRet, pMainLoop, loopQuit, updateTimer,
                   st, exported, milestones,
                   hostRet, observed, startResult, waitResult, fgnPc, faults, queueVars,
                   adapterVars, events, callbacks, retryVars, registry, regVars, waitVars,
                   argVars>>

\* The host calls bzpStart, registers configurators and calls bzpStart again
InitT == Start /\ startsLeft = MaxStartCalls /\ faults = 0 /\ bluezFaults = 0

NextT == HostStartWith \/ HostRegisterConfigurator \/ ServerAndHost \/ StartAgain

SpecT == InitT /\ [][NextT]_vars

(***************************************************************************)
(* The registry of service configurators under concurrent callers:          *)
(* applyRegisteredServiceConfigurators on the host thread while other       *)
(* threads register and clear, one step per use of configuratorMutex        *)
(***************************************************************************)

\* Everything but the registry, its mutex and its callers
registryRest == <<serverRunState, serverHealth, serverThread, srvVars, st, exported,
                  milestones, hostVars, fgnPc, faults, queueVars, adapterVars, events,
                  callbacks, retryVars, config, waitVars, argVars>>

\* The threads that register and clear
Registrars == {"r1", "r2"}

\* A ServiceConfigurator is named by a number; 0 is an empty std::function
ConfiguratorIds == 0..MaxConfiguratorId

\* What the loop of applyRegisteredServiceConfigurators would run over if it read the
\* registry itself
Live(snapshot, configurators) == configurators

\* What the loop of applyRegisteredServiceConfigurators runs over: its copy
Iterated(snapshot, configurators) == snapshot

\* The configurators of a list that are called: if (configurator) configurator(server)
Callable(list) == SelectSeq(list, LAMBDA c : c # 0)

\* applyRegisteredServiceConfigurators: std::lock_guard takes configuratorMutex
ApplyLock ==
    /\ applier.pc = "idle"
    /\ applier.callsLeft > 0
    /\ cfgMutex = "free"
    /\ cfgMutex' = "applier"
    /\ applier' = [applier EXCEPT !.pc = "locked", !.callsLeft = @ - 1,
                                  !.atLock = registry, !.snapshot = <<>>, !.next = 1]
    /\ applied' = <<>>
    /\ UNCHANGED <<registryRest, registry, registrar>>

\* snapshot = configurators(); the lock_guard goes out of scope
ApplyCopy ==
    /\ applier.pc = "locked"
    /\ applier' = [applier EXCEPT !.pc = "apply", !.snapshot = registry]
    /\ cfgMutex' = "free"
    /\ UNCHANGED <<registryRest, registry, registrar, applied>>

\* One turn of the loop over the snapshot, or its end
ApplyNext ==
    /\ applier.pc = "apply"
    /\ LET list == Iterated(applier.snapshot, registry) IN
       IF applier.next > Len(list)
       THEN /\ applier' = [applier EXCEPT !.pc = "idle"]
            /\ applied' = applied
       ELSE /\ applier' = [applier EXCEPT !.next = @ + 1]
            /\ applied' = IF list[applier.next] # 0
                          THEN Append(applied, list[applier.next]) ELSE applied
    /\ UNCHANGED <<registryRest, registry, registrar, cfgMutex>>

\* registerServiceConfigurator or clearServiceConfigurators on another thread: the
\* lock_guard takes configuratorMutex
RegistrarLock ==
    \E t \in Registrars, op \in {"register", "clear"} :
        /\ registrar[t].pc = "idle"
        /\ registrar[t].callsLeft > 0
        /\ cfgMutex = "free"
        /\ cfgMutex' = t
        /\ registrar' = [registrar EXCEPT ![t].pc = op, ![t].callsLeft = @ - 1]
        /\ UNCHANGED <<registryRest, registry, applier, applied>>

\* configurators().push_back(configurator), and the lock_guard goes out of scope
RegistrarPush ==
    \E t \in Registrars, c \in ConfiguratorIds :
        /\ registrar[t].pc = "register"
        /\ Len(registry) < MaxRegistered
        /\ registry' = Append(registry, c)
        /\ registrar' = [registrar EXCEPT ![t].pc = "idle"]
        /\ cfgMutex' = "free"
        /\ UNCHANGED <<registryRest, applier, applied>>

\* configurators().clear(), and the lock_guard goes out of scope
RegistrarClear ==
    \E t \in Registrars :
        /\ registrar[t].pc = "clear"
        /\ registry' = <<>>
        /\ registrar' = [registrar EXCEPT ![t].pc = "idle"]
        /\ cfgMutex' = "free"
        /\ UNCHANGED <<registryRest, applier, applied>>

\* No server: the registry is used by the host thread and by two other threads
InitP == Start /\ startsLeft = 0 /\ faults = 0 /\ bluezFaults = 0

NextP == ApplyLock \/ ApplyCopy \/ ApplyNext \/ RegistrarLock \/ RegistrarPush \/ RegistrarClear

SpecP == InitP /\ [][NextP]_vars

(***************************************************************************)
(* The wait of bzpStartWithBondable on stateChangedCV against the calls of  *)
(* setServerRunState, one step per use of stateChangedMutex, of the atomic  *)
(* serverRunState and of the condition variable                             *)
(***************************************************************************)

\* Everything but the run-state, the mutex, the waiter and the writer
waitRest == <<serverHealth, serverThread, srvVars, st, exported, milestones, hostVars,
              fgnPc, faults, queueVars, adapterVars, events, callbacks, retryVars, cfgVars,
              argVars>>

\* Whether setServerRunState locks stateChangedMutex around its store: it does not
WritesUnderMutex == FALSE

\* The run-states written after run-state s: Initializing by runServerThread, Running
\* by the initialisation or Stopping by bzpTriggerShutdown, Stopped by runServerThread
NextRunStates(s) ==
    CASE s = EUninitialized -> {EInitializing}
      [] s = EInitializing  -> {ERunning, EStopping}
      [] s = ERunning       -> {EStopping}
      [] s = EStopping      -> {EStopped}
      [] OTHER              -> {}

\* The predicate of the wait: serverRunState > EInitializing
InitDone(s) == s > EInitializing

\* std::unique_lock<std::mutex> lock(stateChangedMutex), and again inside wait_for
\* when the thread has been woken or has timed out
WaitLock ==
    /\ waiter.pc \in {"start", "woken", "timeout"}
    /\ stateChangedMutex = "free"
    /\ stateChangedMutex' = "waiter"
    /\ waiter' = [waiter EXCEPT !.pc = IF waiter.pc = "timeout" THEN "last" ELSE "check"]
    /\ UNCHANGED <<waitRest, serverRunState, writer>>

\* wait_for evaluates the predicate with the mutex held: while (!pred()) ...
WaitCheck ==
    /\ waiter.pc = "check"
    /\ waiter' = IF InitDone(serverRunState)
                 THEN [waiter EXCEPT !.pc = "unlock", !.initCompleted = TRUE]
                 ELSE [waiter EXCEPT !.pc = "toBlock"]
    /\ UNCHANGED <<waitRest, serverRunState, writer, stateChangedMutex>>

\* wait_until releases the mutex and blocks, atomically
WaitBlock ==
    /\ waiter.pc = "toBlock"
    /\ waiter' = [waiter EXCEPT !.pc = "blocked",
                                !.missed = InitDone(serverRunState) /\ writer.pc = "idle"]
    /\ stateChangedMutex' = "free"
    /\ UNCHANGED <<waitRest, serverRunState, writer>>

\* maxAsyncInitTimeoutMS has passed
WaitTimeout ==
    /\ waiter.pc = "blocked"
    /\ waiter' = [waiter EXCEPT !.pc = "timeout", !.timedOut = TRUE]
    /\ UNCHANGED <<waitRest, serverRunState, writer, stateChangedMutex>>

\* A condition variable may wake its waiter without a notification
WaitSpurious ==
    /\ waiter.pc = "blocked"
    /\ waiter.spuriousLeft > 0
    /\ waiter' = [waiter EXCEPT !.pc = "woken", !.spuriousLeft = @ - 1]
    /\ UNCHANGED <<waitRest, serverRunState, writer, stateChangedMutex>>

\* After the timeout wait_for returns pred()
WaitLast ==
    /\ waiter.pc = "last"
    /\ waiter' = [waiter EXCEPT !.pc = "unlock",
                                !.initCompleted = InitDone(serverRunState)]
    /\ UNCHANGED <<waitRest, serverRunState, writer, stateChangedMutex>>

\* lock.unlock()
WaitUnlock ==
    /\ waiter.pc = "unlock"
    /\ waiter' = [waiter EXCEPT !.pc = "returned"]
    /\ stateChangedMutex' = "free"
    /\ UNCHANGED <<waitRest, serverRunState, writer>>

\* setServerRunState(newState): serverRunState.store(newState)
SetServerRunStateStore ==
    \E newState \in NextRunStates(serverRunState) :
        /\ writer.pc = "idle"
        /\ WritesUnderMutex => stateChangedMutex = "free"
        /\ serverRunState' = newState
        /\ writer' = [writer EXCEPT !.pc = "notify"]
        /\ UNCHANGED <<waitRest, waiter, stateChangedMutex>>

\* setServerRunState: stateChangedCV.notify_all() wakes the threads that are blocked
SetServerRunStateNotify ==
    /\ writer.pc = "notify"
    /\ writer' = [writer EXCEPT !.pc = "idle"]
    /\ waiter' = IF waiter.pc = "blocked" THEN [waiter EXCEPT !.pc = "woken"] ELSE waiter
    /\ UNCHANGED <<waitRest, serverRunState, stateChangedMutex>>

\* The host thread is about to wait; the server thread has been spawned
InitW == Start /\ startsLeft = 0 /\ faults = 0 /\ bluezFaults = 0

NextW ==
    \/ WaitLock \/ WaitCheck \/ WaitBlock \/ WaitTimeout \/ WaitSpurious \/ WaitLast
    \/ WaitUnlock \/ SetServerRunStateStore \/ SetServerRunStateNotify

SpecW == InitW /\ [][NextW]_vars

(***************************************************************************)
(* The choice of the adapter in BluezAdapter::initialize                    *)
(***************************************************************************)

\* Everything but the selection
selectRest == <<coreVars, callbacks, retryVars, cfgVars, waitVars, delayCall>>

\* Strings are sequences of characters. The object paths of the adapters: /hci0, /hci1
\* and /hci10, with /org/bluez shortened to /
AdapterPaths ==
    { <<"/", "h", "c", "i", "0">>, <<"/", "h", "c", "i", "1">>,
      <<"/", "h", "c", "i", "1", "0">> }

\* The address of the adapter at a path: one address for each adapter
AddressOf(path) == <<"A", "A", ":">> \o SubSeq(path, 5, Len(path))

\* AdapterInfo: path, address, powered
AdapterInfos ==
    { [path |-> p, address |-> AddressOf(p), powered |-> b] : p \in AdapterPaths, b \in BOOLEAN }

\* What discoverAdapters can return: the adapters of the system in the order of
\* g_dbus_object_manager_get_objects, each object once
Discoveries ==
    { list \in UNION { [1..n -> AdapterInfos] : n \in 0..MaxAdapters } :
        \A i, k \in DOMAIN list : list[i].path = list[k].path => i = k }

\* The values of preferredAdapter: none, a path, an address, the name of an adapter, a
\* piece of a name, and a name no adapter has
Preferences ==
    AdapterPaths
    \cup { <<>>, AddressOf(<<"/", "h", "c", "i", "1">>),
           <<"h", "c", "i", "0">>, <<"h", "c", "i", "1">>, <<"h", "c", "i", "1", "0">>,
           <<"h", "c", "i">>, <<"h", "c", "i", "2">> }

\* std::string::find(sub) != npos
Contains(s, sub) ==
    \E i \in 1..(Len(s) - Len(sub) + 1) : SubSeq(s, i, i + Len(sub) - 1) = sub

\* The test of the first loop of the selection
MatchesPreferred(a, preferredAdapter) ==
    \/ a.path = preferredAdapter
    \/ a.address = preferredAdapter
    \/ Contains(a.path, preferredAdapter)

\* The index of the first adapter that passes a test, or 0, given the outcome of the
\* test for each adapter: for (...) { if (test) { selectedPath = adapter.path; break; } }
FirstIndex(tests) ==
    IF \E i \in DOMAIN tests : tests[i]
    THEN CHOOSE i \in DOMAIN tests : tests[i] /\ \A k \in 1..(i - 1) : ~tests[k]
    ELSE 0

\* selectedPath as initialize computes it from a list that is not empty
SelectedPath(availableAdapters, preferredAdapter) ==
    LET byPreference == IF preferredAdapter # <<>>
                        THEN FirstIndex([i \in DOMAIN availableAdapters |->
                                            MatchesPreferred(availableAdapters[i],
                                                             preferredAdapter)])
                        ELSE 0
        byPower == FirstIndex([i \in DOMAIN availableAdapters |->
                                  availableAdapters[i].powered])
    IN  IF byPreference # 0 THEN availableAdapters[byPreference].path
        ELSE IF byPower # 0 THEN availableAdapters[byPower].path
        ELSE availableAdapters[1].path

\* initialize after discoverAdapters: no adapter is an error, otherwise the selection
\* and selectAdapter, which finds the path in the list and stores it
InitializeSelect ==
    /\ selection.pc = "discovered"
    /\ selection' =
         IF selection.availableAdapters = <<>>
         THEN [selection EXCEPT !.pc = "failed", !.error = "NotFound"]
         ELSE LET selectedPath == SelectedPath(selection.availableAdapters,
                                               selection.preferredAdapter)
              IN  IF \E i \in DOMAIN selection.availableAdapters :
                         selection.availableAdapters[i].path = selectedPath
                  THEN [selection EXCEPT !.pc = "selected", !.adapterPath = selectedPath]
                  ELSE [selection EXCEPT !.pc = "failed", !.error = "NotFound"]
    /\ UNCHANGED selectRest

\* Any discovery and any preference
InitI ==
    /\ Started
    /\ startsLeft = 0 /\ faults = 0 /\ bluezFaults = 0
    /\ delayCall = NoDelayCall
    /\ \E list \in Discoveries, preferred \in Preferences :
           selection = [NoSelection EXCEPT !.pc = "discovered", !.availableAdapters = list,
                                           !.preferredAdapter = preferred]

NextI == InitializeSelect

SpecI == InitI /\ [][NextI]_vars

(***************************************************************************)
(* RetryPolicy::getDelayMs. A double is modelled by an exact fraction       *)
(* <<numerator, denominator>> with a positive denominator                   *)
(***************************************************************************)

\* Everything but the call of getDelayMs
delayRest == <<coreVars, callbacks, retryVars, cfgVars, waitVars, selection>>

\* baseDelayMs, maxDelayMs and backoffMultiplier of the policies: those of the adapter
\* (1000 and 2000, 5000 and 30000, 2.0) and others a caller of retryOperation may pass
BaseDelays == {0, 1, 3, 250, 1000, 2000}
MaxDelays == {1, 5000, 30000}
Multipliers == { <<1, 1>>, <<3, 2>>, <<2, 1>> }

\* What uniform_real_distribution<>(0.7, 1.3) may return: a value of [0.7, 1.3)
Jitters == { <<7, 10>>, <<701, 1000>>, <<1, 1>>, <<1299, 1000>> }

RECURSIVE Pow(_, _)
\* b to the power e, for e >= 0
Pow(b, e) == IF e = 0 THEN 1 ELSE b * Pow(b, e - 1)

\* baseDelayMs * std::pow(backoffMultiplier, attempt - 1)
Backoff(baseDelayMs, multiplier, attempt) ==
    <<baseDelayMs * Pow(multiplier[1], attempt - 1), Pow(multiplier[2], attempt - 1)>>

\* std::min(delay, static_cast<double>(maxDelayMs))
MinDelay(delay, maxDelayMs) ==
    IF delay[1] <= maxDelayMs * delay[2] THEN delay ELSE <<maxDelayMs, 1>>

\* delay *= jitter(gen)
Jittered(delay, jitter) == <<delay[1] * jitter[1], delay[2] * jitter[2]>>

\* The delay without its minimum
AsIs(delay) == delay

\* std::max(delay, 1.0)
AtLeastOne(delay) == IF delay[1] < delay[2] THEN <<1, 1>> ELSE delay

\* static_cast<int> of a double that is not negative: the fraction is dropped
ToInt(delay) == delay[1] \div delay[2]

\* RetryPolicy::getDelayMs(attempt) with the value the generator returns
getDelayMs(c, jitter) ==
    IF c.attempt <= 0 THEN 0
    ELSE ToInt(AtLeastOne(Jittered(MinDelay(Backoff(c.baseDelayMs, c.multiplier, c.attempt),
                                            c.maxDelayMs),
                                   jitter)))

\* One call of getDelayMs
GetDelayMs ==
    \E jitter \in Jitters :
        /\ delayCall.pc = "called"
        /\ delayCall' = [delayCall EXCEPT !.pc = "returned", !.jitter = jitter,
                                          !.result = getDelayMs(delayCall, jitter)]
        /\ UNCHANGED delayRest

\* Any policy and any attempt
InitD ==
    /\ Started
    /\ startsLeft = 0 /\ faults = 0 /\ bluezFaults = 0
    /\ selection = NoSelection
    /\ \E b \in BaseDelays, m \in MaxDelays, k \in Multipliers, n \in 0..MaxAttempt :
           delayCall = [NoDelayCall EXCEPT !.pc = "called", !.baseDelayMs = b,
                                           !.maxDelayMs = m, !.multiplier = k,
                                           !.attempt = n]

NextD == GetDelayMs

SpecD == InitD /\ [][NextD]_vars

(***************************************************************************)
(* The queue API under concurrent callers: every function of                *)
(* BluezPeripheral.cpp that touches updateQueue, one step per access made   *)
(* while updateQueueMutex is held                                           *)
(***************************************************************************)

\* Everything but the queue and its callers
restVars == <<serverRunState, serverHealth, serverThread, srvVars, st, exported,
              milestones, hostVars, fgnPc, faults, dispatched, adapterVars, events>>

\* A mutex that lets every thread in
NoExclusion(m) == TRUE

\* std::lock_guard<std::mutex> guard(updateQueueMutex) returns once the mutex is free
Lockable(m) == m = 0

\* What a call does to a std::deque when nothing runs between its first and its last
\* access: the value returned, the element copied out, the deque afterwards
AtomicCall(q, c) ==
    IF c.op = "push"
    THEN [ret |-> 1, id |-> 0, element |-> <<>>, queue |-> PushFront(q, c.entry)]
    ELSE IF c.op = "pop" THEN bzpPopUpdateQueue(q, c.elementLen, c.keep)
    ELSE IF c.op = "clear" THEN [ret |-> 0, id |-> 0, element |-> <<>>, queue |-> <<>>]
    ELSE IF c.op = "size" THEN [ret |-> Len(q), id |-> 0, element |-> <<>>, queue |-> q]
    ELSE [ret |-> IF q = <<>> THEN 1 ELSE 0, id |-> 0, element |-> <<>>, queue |-> q]

\* bzpPushUpdateQueue is entered: QueueEntry t(pObjectPath, pInterfaceName)
CallPush ==
    /\ nextId < MaxPush
    /\ \E t \in Callers, in \in PushInputs :
          /\ apiCall[t].pc = "idle"
          /\ apiCall' = [apiCall EXCEPT ![t] =
                [NoCall EXCEPT !.op = "push", !.pc = "lock",
                               !.entry = [id |-> nextId + 1, path |-> in.path,
                                          iface |-> in.iface]]]
    /\ nextId' = nextId + 1
    /\ UNCHANGED <<restVars, updateQueue, updateQueueMutex, atomicQueue, extVars>>

\* bzpPopUpdateQueue is entered; a buffer without room returns -1 before the lock
CallPop ==
    /\ \E t \in Callers, elementLen \in BufferLens, keep \in {0, 1} :
          /\ apiCall[t].pc = "idle"
          /\ apiCall' = [apiCall EXCEPT ![t] =
                IF elementLen <= 0
                THEN [NoCall EXCEPT !.op = "pop", !.pc = "done", !.elementLen = elementLen,
                                    !.keep = keep, !.ret = -1, !.atomicRet = -1]
                ELSE [NoCall EXCEPT !.op = "pop", !.pc = "lock", !.elementLen = elementLen,
                                    !.keep = keep]]
    /\ UNCHANGED <<restVars, updateQueue, nextId, updateQueueMutex, atomicQueue, extVars>>

\* bzpUpdateQueueIsEmpty, bzpUpdateQueueSize or bzpUpdateQueueClear is entered
CallOther ==
    /\ \E t \in Callers, op \in {"empty", "size", "clear"} :
          /\ apiCall[t].pc = "idle"
          /\ apiCall' = [apiCall EXCEPT ![t] = [NoCall EXCEPT !.op = op, !.pc = "lock"]]
    /\ UNCHANGED <<restVars, updateQueue, nextId, updateQueueMutex, atomicQueue, extVars>>

\* The lock_guard is constructed. This is the moment at which the call takes effect
\* on the deque of calls that run alone.
Lock ==
    /\ \E t \in Callers :
          /\ apiCall[t].pc = "lock"
          /\ Lockable(updateQueueMutex)
          /\ updateQueueMutex' = t
          /\ LET a == AtomicCall(atomicQueue, apiCall[t])
             IN  /\ atomicQueue' = a.queue
                 /\ apiCall' = [apiCall EXCEPT ![t].pc = "locked", ![t].atomicRet = a.ret,
                                               ![t].atomicId = a.id,
                                               ![t].atomicElement = a.element]
    /\ UNCHANGED <<restVars, updateQueue, nextId, extVars>>

\* updateQueue.push_front(t); return 1 (the guard is released)
LockedPush ==
    /\ \E t \in Callers :
          /\ apiCall[t].pc = "locked"
          /\ apiCall[t].op = "push"
          /\ updateQueue' = PushFront(updateQueue, apiCall[t].entry)
          /\ apiCall' = [apiCall EXCEPT ![t].pc = "done", ![t].ret = 1]
    /\ updateQueueMutex' = 0
    /\ UNCHANGED <<restVars, nextId, atomicQueue, extVars>>

\* bzpPopUpdateQueue up to the test of keep: empty() returns 0, an element that does
\* not fit returns -1, both releasing the guard; otherwise back() was copied
LockedPopRead ==
    /\ \E t \in Callers :
          /\ apiCall[t].pc = "locked"
          /\ apiCall[t].op = "pop"
          /\ LET r == bzpPopUpdateQueue(updateQueue, apiCall[t].elementLen, 1)
             IN  IF r.ret # 1
                 THEN /\ apiCall' = [apiCall EXCEPT ![t].pc = "done", ![t].ret = r.ret]
                      /\ updateQueueMutex' = 0
                 ELSE /\ apiCall' = [apiCall EXCEPT ![t].pc = "remove", ![t].id = r.id,
                                                    ![t].element = r.element]
                      /\ updateQueueMutex' = updateQueueMutex
    /\ UNCHANGED <<restVars, updateQueue, nextId, atomicQueue, extVars>>

\* if (keep == 0) updateQueue.pop_back(); the guard is released, the copy returns 1
LockedPopRemove ==
    /\ \E t \in Callers :
          /\ apiCall[t].pc = "remove"
          /\ updateQueue' = IF apiCall[t].keep = 0 THEN PopBack(updateQueue) ELSE updateQueue
          /\ apiCall' = [apiCall EXCEPT ![t].pc = "done", ![t].ret = 1]
    /\ updateQueueMutex' = 0
    /\ UNCHANGED <<restVars, nextId, atomicQueue, extVars>>

\* The body of bzpUpdateQueueIsEmpty, bzpUpdateQueueSize and bzpUpdateQueueClear
LockedOther ==
    /\ \E t \in Callers :
          /\ apiCall[t].pc = "locked"
          /\ apiCall[t].op \in {"empty", "size", "clear"}
          /\ updateQueue' = IF apiCall[t].op = "clear" THEN <<>> ELSE updateQueue
          /\ apiCall' = [apiCall EXCEPT ![t].pc = "done",
                            ![t].ret = IF apiCall[t].op = "size" THEN Len(updateQueue)
                                       ELSE IF apiCall[t].op = "clear" THEN 0
                                       ELSE IF updateQueue = <<>> THEN 1 ELSE 0]
    /\ updateQueueMutex' = 0
    /\ UNCHANGED <<restVars, nextId, atomicQueue, extVars>>

\* The caller has its result and may call again
Return ==
    /\ \E t \in Callers :
          /\ apiCall[t].pc = "done"
          /\ apiCall' = [apiCall EXCEPT ![t] = NoCall]
    /\ UNCHANGED <<restVars, updateQueue, nextId, updateQueueMutex, atomicQueue, extVars>>

\* The callers of the queue API, with no server started
InitL == Start /\ startsLeft = 0 /\ faults = 0 /\ bluezFaults = 0

NextL ==
    \/ CallPush \/ CallPop \/ CallOther \/ Lock \/ LockedPush \/ LockedPopRead
    \/ LockedPopRemove \/ LockedOther \/ Return

SpecL == InitL /\ [][NextL]_vars

(***************************************************************************)
(* Properties                                                               *)
(***************************************************************************)

\* C1: the run-state is Running only after every milestone (bus, owned name, object
\* manager, adapter interface, adapter configured, tree registered, application
\* registered) was completed in the current run, in that order.
C1_RunningAfterAllMilestones ==
    serverRunState = ERunning => milestones = AllMilestones

\* C1: a second run is Running although it acquired no name, found no adapter
\* interface, configured no adapter and registered no application.
C1_RunningWithoutMilestones ==
    /\ serverRunState = ERunning
    /\ milestones = <<"bus", "objmgr", "tree">>

\* C2: bzpStart returns success if and only if its wait observed the run-state
\* Running; in every other case it returns failure.
C2_SuccessIffRunningObserved ==
    (hostPc = "idle" /\ startResult # -1) => (startResult = 1 <=> observed = ERunning)

\* C2: bzpStart has returned success although its wait timed out.
C2_SuccessAfterTimeout ==
    /\ hostPc = "idle"
    /\ startResult = 1
    /\ observed = EInitializing

\* C3: once the server thread has begun, the run-state never goes backwards in the
\* order Uninitialized, Initializing, Running, Stopping, Stopped.
C3_RunStateNeverBackwards ==
    [][srvPc # "begin" => serverRunState' >= serverRunState]_vars

\* C3: the state processor is about to write Running over a Stopping that another
\* thread wrote after the processor's check.
C3_RunningOverStopping ==
    srvPc = "procSetRunning" /\ serverRunState = EStopping

\* C4: whenever the run-state is Running the health is Ok.
C4_RunningImpliesOk ==
    serverRunState = ERunning => serverHealth = EOk

\* C4: the server is Running with health FailedInit.
C4_RunningFailedInit ==
    serverRunState = ERunning /\ serverHealth = EFailedInit

\* C5: when the wait of bzpStart times out, bzpStart returns failure and the health is
\* FailedInit.
C5_TimeoutFailsStart ==
    (hostPc = "idle" /\ startResult # -1 /\ observed \in {EUninitialized, EInitializing})
        => (startResult = 0 /\ serverHealth = EFailedInit)

\* C5: the wait of bzpStart has timed out and the health was set to FailedInit.
C5_TimedOut ==
    /\ hostPc = "sdCheck"
    /\ hostRet = "check"
    /\ observed \in {EUninitialized, EInitializing}
    /\ serverHealth = EFailedInit

\* C6: when a bzpStart that spawned the server thread returns failure, the run-state
\* is Stopped at that moment.
C6_StoppedWhenStartFails ==
    [][(hostPc = "startJoin" /\ hostPc' = "idle") => serverRunState' = EStopped]_vars

\* C6: a failing bzpStart has joined the thread and returns while the run-state is
\* Stopping.
C6_ReturnedWhileStopping ==
    /\ hostPc = "idle"
    /\ startResult = 0
    /\ observed # NotWaited
    /\ serverThread = "none"
    /\ serverRunState = EStopping

\* C7: the health never improves: once it is not Ok it is never Ok again.
C7_HealthNeverImproves ==
    [][serverHealth # EOk => serverHealth' # EOk]_vars

\* C7: a server is started again while the health is FailedInit.
C7_RestartWithFailedHealth ==
    hostPc = "spawn" /\ serverHealth = EFailedInit

\* C8 as the code has it: bzpWait returns success whenever it has joined the server
\* thread, whatever the health.
C8_WaitSucceedsOnceJoined ==
    [][(hostPc = "waitJoin" /\ hostPc' = "idle")
          => (waitResult' = 1 /\ serverThread' = "none")]_vars

\* C8: bzpWait has returned success with health FailedInit.
C8_SuccessWithFailedHealth ==
    /\ hostPc = "idle"
    /\ waitResult = 1
    /\ serverHealth = EFailedInit

\* C8 as stated: bzpWait returns success if and only if the health is Ok once the
\* server thread has been joined.
C8_SuccessIffHealthOk ==
    [][(hostPc = "waitJoin" /\ hostPc' = "idle")
          => (waitResult' = 1 <=> serverHealth' = EOk)]_vars

\* C9: the dispatcher takes every entry at most once, and an entry that the
\* dispatcher takes out of the queue was processed successfully.
C9_ConsumedOnceAndProcessed ==
    [][srvPc = "pop" =>
          /\ \A i, j \in 1..Len(dispatched') :
                dispatched'[i].id = dispatched'[j].id => i = j
          /\ \A i \in 1..Len(dispatched') : dispatched'[i].outcome = "updated"]_vars

\* C9: the dispatcher has taken the entry of a descriptor out of the queue without
\* invoking a handler.
C9_DroppedByDispatcher ==
    \E i \in 1..Len(dispatched) :
        dispatched[i].path = Path(4) /\ dispatched[i].outcome = "ignored"

\* C10: of two entries for the same object path, the one pushed first is dispatched
\* first.
C10_FifoPerPath ==
    \A i, j \in 1..Len(dispatched) :
        (i < j /\ dispatched[i].path = dispatched[j].path)
            => dispatched[i].id < dispatched[j].id

\* C10: two entries for the same object path have been dispatched.
C10_TwoDispatchedForOnePath ==
    \E i, j \in 1..Len(dispatched) :
        i < j /\ dispatched[i].path = dispatched[j].path

\* C11: the update queue is linearisable: in every interleaving of pushes and pops
\* (with and without keep) by several threads, each call returns what it would return,
\* and leaves the queue as it would leave it, if the calls ran one at a time in the
\* order in which they took the mutex.
C11_Linearisable ==
    /\ \A t \in Callers :
          apiCall[t].pc = "done" =>
              /\ apiCall[t].ret = apiCall[t].atomicRet
              /\ apiCall[t].id = apiCall[t].atomicId
              /\ apiCall[t].element = apiCall[t].atomicElement
    /\ updateQueueMutex = 0 => updateQueue = atomicQueue

\* C11: a pop without keep has copied the entry at the back and is about to remove
\* it, while another thread is inside a push, waiting for the mutex.
C11_PushWaitsForPop ==
    \E t, u \in Callers :
        /\ apiCall[t].op = "pop" /\ apiCall[t].pc = "remove" /\ apiCall[t].keep = 0
        /\ apiCall[u].op = "push" /\ apiCall[u].pc = "lock"

\* C12: an entry pushed for a characteristic whose flags contain notify or indicate,
\* once the dispatcher has taken it, has caused exactly one PropertiesChanged signal
\* with the key Value: not zero, not more than one.
C12_ExactlyOneSignal ==
    \A i \in 1..Len(dispatched) :
        \A n \in Nodes :
            (/\ IsGattCharacteristic(n)
             /\ Flags(n) \cap {"notify", "indicate"} # {}
             /\ dispatched[i].path = Path(n)
             /\ dispatched[i].outcome \in {"updated", "failed"})
                => dispatched[i].signals = 1

\* C12: the server is Running, the only entry ever pushed was for the characteristic
\* "string" (flags read, write, notify), the dispatcher took it while Running, and no
\* signal was emitted.
C12_NoSignalForNotifyCharacteristic ==
    /\ serverRunState = ERunning
    /\ nextId = 1
    /\ updateQueue = <<>>
    /\ Len(dispatched) = 1
    /\ dispatched[1].path = Path(3)
    /\ dispatched[1].state = ERunning
    /\ dispatched[1].signals = 0

\* C13: a dispatcher tick removes an entry from the queue and invokes a handler only
\* while the run-state is Running, and it takes exactly one entry (none only when the
\* queue is empty).
C13_TickOnlyWhenRunning ==
    [][(srvPc = "pop" /\ srvPc' = "loop") =>
          IF updateQueue = <<>>
          THEN UNCHANGED <<updateQueue, dispatched>>
          ELSE /\ serverRunState = ERunning
               /\ Len(updateQueue') = Len(updateQueue) - 1
               /\ Len(dispatched') = Len(dispatched) + 1]_vars

\* C13: idleFunc has passed its test of the run-state and is about to pop an entry,
\* and the run-state is Stopping.
C13_PopWhileStopping ==
    /\ srvPc = "pop"
    /\ serverRunState = EStopping
    /\ updateQueue # <<>>

\* C14: once the bus could not be acquired, or the name was lost before it was ever
\* acquired in this run, the health is FailedInit and the run-state is Stopping or
\* Stopped for the rest of the run: the server shuts down and is never Running.
C14_FatalInitFailure ==
    events \cap {"busFailed", "nameFailed"} # {}
        => /\ serverHealth = EFailedInit
           /\ serverRunState \in {EStopping, EStopped}

\* C14: the name was lost before it was acquired, and the server thread has run to
\* its end.
C14_StoppedAfterNameFailure ==
    /\ "nameFailed" \in events
    /\ serverRunState = EStopped
    /\ serverThread = "finished"

\* C15: when the owned name is lost after it was acquired, a retry is scheduled and
\* the name is the next thing the state processor acquires; and when that further
\* attempt loses the name as well, the health is FailedRun.
C15_RetryThenFailedRun ==
    /\ (st.nameRequest = "lost" /\ st.periodicTimeoutId # 0 /\ st.pBusConnection
           /\ serverRunState <= ERunning)
          => (NextMilestone(st) = "name" /\ (st.retryTimeStart # 0 \/ srvPc = "proc"))
    /\ "nameRetryFailed" \in events => serverHealth = EFailedRun

\* C15: the name was lost while Running, the retry asked for it again and lost it
\* again, and the health is still Ok.
C15_RetryFailedHealthOk ==
    /\ events = {"nameLost", "nameRetryFailed"}
    /\ serverRunState = ERunning
    /\ serverHealth = EOk

\* C16: once trigger_shutdown has returned no retry timer is pending (no adapter
\* property retry, no advertising retry, no recovery timer of the BlueZ loss), and
\* no retry or recovery attempt runs from then on.
C16_TimersCancelledOnShutdown ==
    /\ [](ShutdownReturned
             => /\ adapter.activeRetries = 0
                /\ adapter.activeAdvertisingRetry = "none"
                /\ recoveryTimer = "none")
    /\ [][ShutdownReturned
             => ~(OnRecoveryTimer \/ OnSecondRecoveryTimer \/ OnAdvertisingRetryTimeout)]_vars

\* C16: the recovery timer of a BlueZ loss has run after trigger_shutdown returned and
\* has initialized the adapter again.
C16_RecoveredAfterShutdown ==
    /\ ShutdownReturned
    /\ "recovered" \in events
    /\ "recoveryFailed" \notin events
    /\ adapter.initialized
    /\ recoveryTimer = "none"

\* C17: once trigger_shutdown has been called and has returned, the state processor
\* starts no step of the initialisation: no bus or name acquisition, no object
\* manager, no adapter discovery or configuration, no object registration and no
\* application registration.
C17_NoInitAfterShutdown ==
    [][TriggerShutdownReturned
          => ~(ProcBus \/ ProcName \/ ProcObjMgr \/ ProcFindAdapter \/ ProcConfigure
                  \/ ProcRegisterObjects \/ ProcRegisterApplication)]_vars

\* C17: trigger_shutdown has returned in this run and the server is Running with its
\* application registered and a main loop nobody asked to quit.
C17_RunningAfterShutdown ==
    /\ TriggerShutdownReturned
    /\ serverRunState = ERunning
    /\ st.bApplicationRegistered
    /\ srvPc = "loop"
    /\ ~loopQuit

\* C18: when shutdown() runs BluezAdapter::shutdown while the advertisement is
\* registered with BlueZ, UnregisterAdvertisement is invoked by that step: the
\* invocation is on record or the registration is gone when the step is over.
C18_ShutdownUnregistersAdvertisement ==
    [][(/\ FgnShutdownQuit \/ HostShutdownQuit
        /\ adapter.initialized
        /\ adapter.advertisement = "registered"
        /\ bluez.advertisement)
          => ("UnregisterAdvertisement" \in events' \/ ~bluez'.advertisement)]_vars

\* C18: trigger_shutdown was called while the advertisement was registered, the
\* server thread has ended, and the advertisement is still registered with BlueZ.
C18_StillAdvertisingAfterShutdown ==
    /\ ShutdownReturned
    /\ "bluezLost" \notin events
    /\ serverThread = "finished"
    /\ serverRunState = EStopped
    /\ adapter.advertisement = "registered"
    /\ bluez.advertisement

\* C19: after BlueZ was lost while the server was Running and the recovery of the 5 s
\* timer has succeeded, once the calls that recovery issued are answered and no retry
\* is left, the GATT application and the advertisement are registered with BlueZ
\* again, the run-state is Running and the health is Ok.
C19_RecoveryRegistersAgain ==
    (/\ "lostWhileRunning" \in events
     /\ "recovered" \in events
     /\ events \cap {"recoveryFailed", "shutdown"} = {}
     /\ recoveryTimer = "none"
     /\ bluez.present
     /\ adapter.initialized
     /\ adapter.registerCall = "none"
     /\ adapter.activeAdvertisingRetry = "none")
        => /\ bluez.application
           /\ bluez.advertisement
           /\ serverRunState = ERunning
           /\ serverHealth = EOk

\* C19: BlueZ was lost while Running, the recovery succeeded and has registered the
\* advertisement again; the server is Running and healthy, and its GATT application
\* is not registered with BlueZ.
C19_RecoveredWithoutApplication ==
    /\ "lostWhileRunning" \in events
    /\ "recovered" \in events
    /\ events \cap {"recoveryFailed", "shutdown"} = {}
    /\ recoveryTimer = "none"
    /\ adapter.initialized
    /\ adapter.registerCall = "none"
    /\ bluez.advertisement
    /\ ~bluez.application
    /\ st.bApplicationRegistered
    /\ serverRunState = ERunning
    /\ serverHealth = EOk

\* C20: when the recovery of the 5 s timer has failed, one further attempt is pending
\* on the 15 s timer until it runs and none after it; the health is FailedRun once
\* that second attempt has failed too, and is not FailedRun before.
C20_SecondFailureIsFailedRun ==
    /\ ("recoveryFailed" \in events
           /\ events \cap {"secondRecoveryFailed", "recoveredLate"} = {})
          => recoveryTimer = "second"
    /\ "secondRecoveryFailed" \in events
          => (recoveryTimer = "none" /\ serverHealth = EFailedRun)
    /\ serverHealth = EFailedRun => "secondRecoveryFailed" \in events

\* C20: BlueZ was lost while Running, the 5 s recovery and the 15 s recovery have both
\* failed, no timer is left, and the server is Running with health Ok.
C20_BothRecoveriesFailedHealthOk ==
    /\ "lostWhileRunning" \in events
    /\ "recoveryFailed" \in events
    /\ "secondRecoveryFailed" \in events
    /\ recoveryTimer = "none"
    /\ ~adapter.initialized
    /\ serverRunState = ERunning
    /\ serverHealth = EOk

\* C21: whatever Connected=true, Connected=false, InterfacesAdded and
\* InterfacesRemoved signals arrive, the paths whose entry says connected are the
\* device paths BlueZ has connected, activeConnections is their number, and every
\* signal by which a path becomes connected or stops being connected calls the
\* connectionCallback once, with (true, path) or (false, path).
C21_ConnectionsTracked ==
    /\ [](/\ \A p \in DevicePaths :
                adapter.connectedDevices[p] = "connected" <=> bluez.devices[p] = "connected"
          /\ adapter.activeConnections
                = Cardinality({p \in DevicePaths : bluez.devices[p] = "connected"}))
    /\ [][\A p \in DevicePaths :
             (adapter.connectionCallback
                 /\ (bluez.devices[p] = "connected") # (bluez'.devices[p] = "connected"))
               => callbacks' = <<[connected |-> bluez'.devices[p] = "connected", path |-> p]>>]_vars

\* C21: a device that had connected and disconnected is connected again on the same
\* path; its entry still says disconnected, no connection is counted and the signal
\* has called no callback.
C21_ReconnectNotTracked ==
    /\ adapter.connectionCallback
    /\ bluez.devices[1] = "connected"
    /\ adapter.connectedDevices[1] = "disconnected"
    /\ adapter.activeConnections = 0
    /\ callbacks = <<>>

(***************************************************************************)
(* C22..C24: the retry paths and the advertisement, under SpecV and SpecVF  *)
(***************************************************************************)

\* The error classes that no attempt cures
NeverRetried == {"PermissionDenied", "NotSupported", "InvalidArgs", "AlreadyExists"}

\* C22: a failure whose error class is PermissionDenied, NotSupported, InvalidArgs or
\* AlreadyExists is never retried: the step of the property path that handles it
\* attaches no retry timer and adds no retry state, and the step of the advertising
\* path that handles it attaches no timer and leaves neither a retry state nor a timer.
C22_NonRetryableNeverRetried ==
    /\ [](/\ prop.error \in NeverRetried => ~prop.scheduled
          /\ adv.error \in NeverRetried =>
                 ~adv.scheduled /\ adv.activeAdvertisingRetry = 0 /\ adv.timers = 0)
    /\ [][prop'.error \in NeverRetried
             => Len(prop'.activeRetries) <= Len(prop.activeRetries)]_vars

\* A re-attempt of RegisterAdvertisement has failed with AlreadyExists
C22_RetryRefusedAsAlreadyExists ==
    /\ adv.error = "AlreadyExists"
    /\ adv.reattempts > 0
    /\ adv.retryCalls = 0

\* C23: RegisterAdvertisement is sent again at most 5 times after a retryable failure,
\* and a retry that has begun always ends, leaving neither a retry state nor a retry
\* timer.
C23_AdvertisingRetryTerminates ==
    /\ [](adv.reattempts <= AdvertisingMaxAttempts)
    /\ (adv.activeAdvertisingRetry # 0)
           ~> (adv.activeAdvertisingRetry = 0 /\ adv.timers = 0)

\* The retry state is left with no timer attached and no call in flight, on an
\* adapter that was shut down
C23_RetryStateLeftBehind ==
    /\ ~adapter.initialized
    /\ adv.activeAdvertisingRetry # 0
    /\ adv.timers = 0
    /\ adv.retryCalls = 0
    /\ adv.firstCalls = 0

\* The advertisement is registered: RegisterAdvertisement has succeeded, and BlueZ has
\* neither released the advertisement nor unregistered it since
CurrentlyRegistered == bluez.advertisement

\* What setAdvertisingAsync(false) is to do: UnregisterAdvertisement exactly when the
\* advertisement is registered, else report success and send nothing
DisableAsClaimed ==
    /\ (adv.busCall = "UnregisterAdvertisement") <=> CurrentlyRegistered
    /\ ~CurrentlyRegistered => (adv.reported = "Success" /\ adv.busCall = "none")

\* C24: setAdvertisingAsync(false) sends UnregisterAdvertisement if and only if the
\* advertisement is currently registered, and otherwise reports success without a bus
\* call.
C24_UnregisterIffRegistered == adv.call = "disable" => DisableAsClaimed

\* C24, amended: on an initialized adapter setAdvertisingAsync(false) sends
\* UnregisterAdvertisement if and only if the advertisement is currently registered,
\* and otherwise reports success without a bus call; on an adapter that is not
\* initialized it reports NotReady and sends nothing.
C24_UnregisterIffRegisteredWhenInitialized ==
    adv.call = "disable" =>
        IF adapter.initialized THEN DisableAsClaimed
        ELSE adv.reported = "NotReady" /\ adv.busCall = "none"

\* setAdvertisingAsync(false) has sent UnregisterAdvertisement for a registered
\* advertisement
C24_UnregisterSent ==
    /\ adv.call = "disable"
    /\ adapter.initialized
    /\ CurrentlyRegistered
    /\ adv.busCall = "UnregisterAdvertisement"

(***************************************************************************)
(* C25: restart, under SpecS                                                *)
(***************************************************************************)

\* The wait of a start that follows a successful start and its stop has returned with
\* its predicate true, and nobody has asked for a shutdown since
RestartedAndWaited ==
    /\ "restart" \in events
    /\ "shutdown" \notin events
    /\ observed > EInitializing

InvalidConfig(c) ==
    \/ c.serviceNameNull
    \/ c.serviceName = <<>>
    \/ strlen(c.serviceName) > 255
    \/ ~(tolower(c.serviceName) = <<"bzperi">> \/ Head(tolower(c.serviceName)) = "bzperi.")
    \/ c.nulls # {}
    \/ c.maxAsyncInitTimeoutMS \notin 100..60000

\* A step that is a call of bzpStart
StartCalled == hostPc = "idle" /\ startsLeft' < startsLeft

\* C26: a start with an invalid configuration returns failure at once: no configurator
\* is applied, no thread is spawned, and the run-state and the health stay as they
\* were.
C26_InvalidConfigRejected ==
    [][(StartCalled /\ InvalidConfig(config'))
          => /\ startResult' = 0
             /\ hostPc' = "idle"
             /\ UNCHANGED <<applied, serverThread, srvPc, serverRunState, serverHealth>>]_vars

\* A name that is too long has been refused after a run that applied a configurator
\* and timed out
C26_LongNameRefusedAfterRun ==
    /\ startResult = 0
    /\ hostPc = "idle"
    /\ ~config.serviceNameNull
    /\ strlen(config.serviceName) > 255
    /\ Head(config.serviceName) = "bzperi."
    /\ config.maxAsyncInitTimeoutMS = 60000
    /\ applied # <<>>
    /\ serverRunState = EStopped
    /\ serverHealth = EFailedInit

(***************************************************************************)
(* C27: the registry of configurators, under SpecP                          *)
(***************************************************************************)

\* C27: applyRegisteredServiceConfigurators calls exactly the configurators that were
\* registered when it took the lock, in the order of their registration, and holds the
\* lock for the copy only: what other threads register or clear meanwhile changes
\* nothing of what is called, and they are not kept waiting while configurators run.
C27_AppliesSnapshot ==
    /\ [](applier.pc = "apply" =>
              /\ cfgMutex # "applier"
              /\ applier.snapshot = applier.atLock
              /\ applier.next <= Len(applier.atLock) + 1
              /\ applied = Callable(SubSeq(applier.atLock, 1, applier.next - 1)))
    /\ [][(applier.pc = "apply" /\ applier'.pc = "idle")
              => applied' = Callable(applier.atLock)]_vars

\* All of a snapshot of two configurators was applied while another thread cleared the
\* registry
C27_AppliedWhileCleared ==
    /\ applier.pc = "apply"
    /\ applier.next > Len(applier.snapshot)
    /\ Len(applied) = 2
    /\ registry = <<>>
    /\ \E t \in Registrars : registrar[t].pc = "idle" /\ registrar[t].callsLeft = 0

(***************************************************************************)
(* C28: the run-state and its condition variable, under SpecW               *)
(***************************************************************************)

\* C28: every write of the run-state is ordered with the waiter of bzpStart through
\* stateChangedMutex: the run-state changes only while the waiter does not hold the
\* mutex, so the waiter is never blocked on a run-state that already satisfies its
\* predicate with no notification to come.
C28_WaiterNeverMissesTransition ==
    /\ [][serverRunState' # serverRunState => stateChangedMutex # "waiter"]_vars
    /\ [](waiter.pc = "blocked" /\ InitDone(serverRunState) => writer.pc = "notify")

\* The waiter saw Initializing, Running was stored and notified before it blocked, and
\* it returned by the timeout alone
C28_WokenByTimeoutOnly ==
    /\ waiter.pc = "returned"
    /\ waiter.initCompleted
    /\ waiter.missed
    /\ waiter.timedOut
    /\ waiter.spuriousLeft = MaxSpuriousWakeups
    /\ serverRunState = ERunning

(***************************************************************************)
(* C29: the adapter initialize selects, under SpecI                         *)
(***************************************************************************)

\* s ends with sub
EndsWith(s, sub) ==
    Len(sub) <= Len(s) /\ SubSeq(s, Len(s) - Len(sub) + 1, Len(s)) = sub

\* The first adapter whose path or address is the preference or whose path ends with
\* it, else the first powered adapter, else the first adapter
SelectedByRules(availableAdapters, preferredAdapter) ==
    LET byPreference ==
            IF preferredAdapter # <<>>
            THEN FirstIndex([i \in DOMAIN availableAdapters |->
                                \/ availableAdapters[i].path = preferredAdapter
                                \/ availableAdapters[i].address = preferredAdapter
                                \/ EndsWith(availableAdapters[i].path, preferredAdapter)])
            ELSE 0
        byPower == FirstIndex([i \in DOMAIN availableAdapters |->
                                  availableAdapters[i].powered])
    IN  IF byPreference # 0 THEN availableAdapters[byPreference].path
        ELSE IF byPower # 0 THEN availableAdapters[byPower].path
        ELSE availableAdapters[1].path

\* C29: the adapter that initialize selects is the first one whose path or address is
\* the preferred string or whose path ends with it; without such an adapter the first
\* powered one; without a powered one the first of the enumeration.
C29_SelectionFollowsRules ==
    selection.pc = "selected" =>
        selection.adapterPath = SelectedByRules(selection.availableAdapters,
                                                selection.preferredAdapter)

\* hci1 was preferred and is present, and hci10, enumerated before it, was selected
C29_PreferredInsidePath ==
    /\ selection.pc = "selected"
    /\ selection.preferredAdapter = <<"h", "c", "i", "1">>
    /\ \E i \in DOMAIN selection.availableAdapters :
           selection.availableAdapters[i].path = <<"/", "h", "c", "i", "1">>
    /\ selection.adapterPath = <<"/", "h", "c", "i", "1", "0">>

(***************************************************************************)
(* C30: the range of RetryPolicy::getDelayMs, under SpecD                   *)
(***************************************************************************)

\* min(max, base * m^(n-1)) of a call, as a fraction
Nominal(c) ==
    LET grown == <<c.baseDelayMs * Pow(c.multiplier[1], c.attempt - 1),
                   Pow(c.multiplier[2], c.attempt - 1)>>
    IN  IF grown[1] > c.maxDelayMs * grown[2] THEN <<c.maxDelayMs, 1>> ELSE grown

TreeInterfaces == {n \in Nodes : HasInterface(n)}

\* C31: when the registration of an interface fails, what the attempt had registered
\* is unregistered from the bus: the bus exports after the failed attempt what it
\* exported before it.
C31_FailedRegistrationRolledBack ==
    [][(ProcAt("tree") /\ st.retryTimeStart = 0 /\ st'.retryTimeStart # 0)
           => exported' = exported]_vars

\* A failed attempt has emptied registeredObjectIds and left interfaces on the bus
C31_IdsForgottenOnBus ==
    /\ st.retryTimeStart # 0
    /\ st.registeredObjectIds = {}
    /\ exported # {}
    /\ serverRunState = EInitializing

\* C33: the processor goes on to the registration of the application only when every
\* interface of the tree is registered and kept in registeredObjectIds.
C33_ApplicationAfterWholeTree ==
    "app" \in st.pending =>
        /\ exported = TreeInterfaces
        /\ st.registeredObjectIds = TreeInterfaces

\* RegisterApplication was sent with nothing but the second object in
\* registeredObjectIds
C33_ApplicationAfterPartialTree ==
    /\ "app" \in st.pending
    /\ st.registeredObjectIds = {5}
    /\ serverRunState = EInitializing

(***************************************************************************)
(* C32: the retry timestamp of the state processor, under SpecR             *)
(***************************************************************************)

\* Whether a milestone is reached in a state of the statics and of the bus
Achieved(m, s, exp) ==
    CASE m = "bus"     -> s.pBusConnection
      [] m = "name"    -> s.bOwnedNameAcquired
      [] m = "objmgr"  -> s.pBluezObjectManager
      [] m = "iface"   -> s.bluezGattManagerInterfaceName
      [] m = "adapter" -> s.bAdapterConfigured
      [] m = "tree"    -> exp = TreeInterfaces /\ s.registeredObjectIds = TreeInterfaces
      [] m = "app"     -> s.bApplicationRegistered
      [] OTHER         -> FALSE

\* While retryTimeStart is set, an entry of the state processor returns at once
RetryHolds ==
    [][(srvPc = "proc" /\ st.retryTimeStart # 0 /\ srvPc' # srvPc)
           => (srvPc' = procRet /\ st' = st /\ exported' = exported)]_vars

\* The milestones in the order of the chain of the processor
ChainOrder == <<"bus", "name", "objmgr", "iface", "adapter", "tree", "app">>

\* When the timestamp is cleared, a milestone that failed and is still missing, with
\* every milestone before it reached, is the one the processor attempts
ReattemptsFailed ==
    [][(st.retryTimeStart # 0 /\ st'.retryTimeStart = 0)
           => \A i \in DOMAIN ChainOrder :
                  (/\ ChainOrder[i] \in st.failed
                   /\ ~Achieved(ChainOrder[i], st', exported')
                   /\ \A k \in 1..(i - 1) : Achieved(ChainOrder[k], st', exported'))
                  => NextMilestone(st') = ChainOrder[i]]_vars

\* C32: while retryTimeStart is set, an entry of the state processor returns without
\* attempting anything; when the periodic timer clears the timestamp, the milestone
\* the processor attempts next is the one that failed.
C32_RetryHoldsThenReattempts == RetryHolds /\ ReattemptsFailed

\* The registration of the tree failed, the timestamp was cleared, and the processor
\* is about to register the application
C32_ReattemptsAnotherMilestone ==
    /\ srvPc = "proc"
    /\ st.retryTimeStart = 0
    /\ serverRunState = EInitializing
    /\ NextMilestone(st) = "app"
    /\ exported # TreeInterfaces

(***************************************************************************)
(* C34: shutdown at any moment of a run, under SpecF                        *)
(***************************************************************************)

\* C34: once bzpTriggerShutdown is called after the server thread was spawned, the
\* run-state reaches Stopped and the server thread ends, so that bzpWait returns.
C34_ShutdownLeadsToStopped ==
    ("shutdown" \in events /\ serverThread = "running")
        ~> (serverRunState = EStopped /\ serverThread # "running")

\* bzpTriggerShutdown has returned, the run-state is Stopping, and the server thread
\* sits in a main loop that nobody has asked to quit and that has no source left
C34_LoopNeverQuit ==
    /\ TriggerShutdownReturned
    /\ serverRunState = EStopping
    /\ srvPc = "loop"
    /\ ~loopQuit
    /\ ~ENABLED ServerThread

(***************************************************************************)
(* C35: the milestones of a second run, under SpecS                         *)
(***************************************************************************)

\* The milestones a start has to perform, whatever an earlier run did
OwnMilestones == {"name", "iface", "adapter", "app"}

\* C35: in a run that follows a complete stop, the run-state is set to Running only
\* after the owned name, the adapter interface, the configuration of the adapter and
\* the registration of the application were performed in that run.
C35_RestartPerformsEveryMilestone ==
    [][("restart" \in events /\ serverRunState # ERunning /\ serverRunState' = ERunning)
           => \A m \in OwnMilestones : \E i \in DOMAIN milestones : milestones[i] = m]_vars

\* The second run is Running and has acquired no name, found no adapter, configured
\* nothing and registered no application
C35_RestartSkippedMilestones ==
    /\ "restart" \in events
    /\ serverRunState = ERunning
    /\ srvPc = "loop"
    /\ \A i \in DOMAIN milestones : milestones[i] \notin OwnMilestones

(***************************************************************************)
(* C36: the place of advertising in the initialisation, under SpecF         *)
(***************************************************************************)

\* C36: the advertisement is registered with BlueZ only when the tree is registered
\* on the bus and the GATT application is registered.
C36_AdvertisingComesLast ==
    [][(~bluez.advertisement /\ bluez'.advertisement)
           => (exported = TreeInterfaces /\ bluez.application)]_vars

\* The advertisement is registered while nothing of the tree is on the bus and no
\* application is registered
C36_AdvertisingBeforeTree ==
    /\ bluez.advertisement
    /\ adapter.advertisement = "registered"
    /\ exported = {}
    /\ ~bluez.application
    /\ NextMilestone(st) = "tree"
    /\ serverRunState = EInitializing

(***************************************************************************)
(* C37: the threads that use the bookkeeping of BluezAdapter, under SpecA   *)
(***************************************************************************)

\* connectedDevices and the two kinds of retry state of BluezAdapter
Bookkeeping(a) == <<a.connectedDevices, a.activeRetries, a.activeAdvertisingRetry>>

\* A step of the host thread or of the foreign thread
OffLoop == hostPc' # hostPc \/ fgnPc' # fgnPc

\* C37: while the event-loop thread exists, connectedDevices and the retry
\* bookkeeping of the adapter are changed by steps of that thread only.
C37_BookkeepingOnLoopThreadOnly ==
    [][(serverThread = "running" /\ Bookkeeping(adapter') # Bookkeeping(adapter))
           => ~OffLoop]_vars

\* A foreign thread is inside shutdown(), about to call BluezAdapter::shutdown, while
\* the event loop runs and owns a scheduled advertising retry
C37_ForeignThreadClears ==
    /\ fgnPc = "sdQuit"
    /\ serverThread = "running"
    /\ srvPc = "loop"
    /\ adapter.initialized
    /\ adapter.activeAdvertisingRetry = "scheduled"

(***************************************************************************)
(* C38: setAdvertisingAsync(false) and the retry of an enable, under SpecV  *)
(***************************************************************************)

\* C38: from a setAdvertisingAsync(false) until the next setAdvertisingAsync(true),
\* no step registers the advertisement, sends RegisterAdvertisement or attaches a
\* retry timer.
C38_DisableEndsEnableRetry ==
    [][(adv.disabled /\ adv'.disabled)
           => /\ adv'.registered => adv.registered
              /\ adv'.busCall # "RegisterAdvertisement"
              /\ ~adv'.scheduled]_vars

\* A retry that is waiting for its timer is ended by the call with false: nothing
\* is sent afterwards and no timer is attached
PendingRetryEndedByDisable ==
    [][(adv.disabled /\ adv'.disabled)
           => /\ adv'.busCall # "RegisterAdvertisement"
              /\ ~adv'.scheduled]_vars

\* After setAdvertisingAsync(false), which found the advertisement unregistered and
\* reported success, the reply to the call of the retry timer has registered it
C38_RegisteredAfterDisable ==
    /\ adv.disabled
    /\ adv.registered
    /\ bluez.advertisement
    /\ adv.reported = "Success"
    /\ adv.call = "none"
    /\ adv.unregisterCalls = 0
    /\ adv.activeAdvertisingRetry = 0

(***************************************************************************)
(* C39: the entries of descriptors in idleFunc, under SpecQ                 *)
(***************************************************************************)

\* C39: an entry pushed by bzpNofifyUpdatedDescriptor that the dispatcher takes makes
\* it call callOnUpdatedValue of that descriptor.
C39_DescriptorHandlerInvoked ==
    \A i \in 1..Len(dispatched) :
        dispatched[i].path = Path(4) => dispatched[i].outcome \in {"updated", "failed"}

\* The only entry pushed was the one of the descriptor; the running server took it,
\* found the interface and called nothing
C39_DescriptorEntryIgnored ==
    /\ serverRunState = ERunning
    /\ updateQueue = <<>>
    /\ Len(dispatched) = 1
    /\ dispatched[1].path = Path(4)
    /\ findInterface(dispatched[1].path, InterfaceName(4)) = 4
    /\ dispatched[1].outcome = "ignored"
    /\ dispatched[1].signals = 0

(***************************************************************************)
(* C40: bzpStart while a server exists, under SpecT                         *)
(***************************************************************************)

\* C40: a call of bzpStart while the server is Initializing or Running leaves
\* TheServer, the applications of the configurators and the server thread as they are.
C40_StartWhileStartedRejected ==
    [][(/\ startsLeft' < startsLeft
        /\ serverThread = "running"
        /\ serverRunState \in {EInitializing, ERunning})
           => /\ config' = config
              /\ applied' = applied
              /\ serverThread' = "running"]_vars

\* The second call replaced the server, applied the configurator a second time and
\* ended the process while the first server was running
C40_SecondStartTerminates ==
    /\ serverThread = "terminated"
    /\ serverRunState = ERunning
    /\ registry = <<1>>
    /\ applied = <<1, 1>>
    /\ startsLeft = 0

====
